---- MODULE Spec2Model ----
(***************************************************************************)
(* A model of azizo-core: the single-instance guard of AsusController,     *)
(* the callback-written state snapshot, the display-mode model and the     *)
(* DisplayController operations of AsusController and MockController.      *)
(***************************************************************************)
EXTENDS Integers, Sequences, FiniteSets, TLC

VARIABLES
    \* ---- controller.rs: instance guard and the threads calling new()/drop
    INSTANCE_EXISTS,          \* static AtomicBool (controller.rs:155)
    tpc,                      \* per thread: position in new() / drop()
    tstep,                    \* per thread: next step of init_internal
    tres,                     \* per thread: what its last new() returned
    teardown,                 \* per thread: what its last drop did with uninit
    \* ---- controller.rs: callback_state statics
    CURRENT_MODE,
    IS_MONOCHROME,
    LAST_NON_EREADING_MODE,
    MANUAL_SLIDER,
    EYECARE_SLIDER,
    EREADING_GRAYSCALE,
    EREADING_TEMP,
    CURRENT_DIMMING,
    \* ---- mock.rs: MockController.state (behind its Mutex)
    mock,
    \* ---- the caller of the DisplayController operations
    ctl,                      \* which implementation is driven: "asus" | "mock"
    op,                       \* the DisplayController operation in progress
    pc,                       \* position inside the running operation
    current,                  \* toggle_e_reading: `current`
    target,                   \* toggle_e_reading: `target`
    ret,                      \* what the last finished operation returned
    arg,                      \* set_dimming / set_dimming_percent: the argument
    conv,                     \* the calls of the dimming conversions made so far
    \* ---- threads running inside one operation or one callback
    cb,                       \* the callback the native thread is executing
    rd,                       \* a get_state running beside it: fields loaded so far
    tog,                      \* per thread: its MockController::toggle_e_reading
    mock0,                    \* the state the MockController was created with
    \* ---- the native component (AsusCustomizationRpcClient.dll)
    dev,                      \* the hardware state it holds
    pending,                  \* reports it has queued for the callback
    lastCall,                 \* the last native entry point called, with its argument
    status,                   \* the i64 the last native set call returned
    \* ---- history of the run, read only by the properties
    lastWrites,               \* stores to last_non_ereading_mode since the overlay
                              \* flag last changed
    pair,                     \* progress of a toggle / toggle pair
    calls                     \* operations the caller has begun

guardVars  == <<INSTANCE_EXISTS, tpc, tstep, tres, teardown>>
staticVars == <<CURRENT_MODE, IS_MONOCHROME, LAST_NON_EREADING_MODE, MANUAL_SLIDER,
                EYECARE_SLIDER, EREADING_GRAYSCALE, EREADING_TEMP, CURRENT_DIMMING>>
fineVars   == <<rd, tog, mock0>>
opVars     == <<ctl, op, pc, current, target, ret, arg, conv, fineVars>>
nativeVars == <<dev, pending, lastCall, status>>
histVars   == <<lastWrites, pair, calls>>
nonGuardVars == <<staticVars, mock, opVars, cb, nativeVars, histVars>>
vars       == <<guardVars, staticVars, mock, opVars, cb, nativeVars, histVars>>

(***************************************************************************)
(* Bounds of the model.                                                    *)
(***************************************************************************)
NThreads == 2
Threads  == 1..NThreads
MaxPending == 2      \* reports the native component may hold undelivered
MaxWrites  == 2      \* lastWrites counts up to here and stays
MaxConv    == 3      \* calls of the dimming conversions a caller makes
MaxCalls   == 3      \* operations a caller begins in SpecDevice

(***************************************************************************)
(* AsusController::new / init_internal / Drop  (controller.rs:199-240,     *)
(* 401-411).                                                               *)
(***************************************************************************)

\* The fallible steps of init_internal in program order, each with the error
\* its failure makes new() return.
InitSteps ==
    << [step |-> "find_asus_package",          err |-> "PackageNotFound"],
       [step |-> "get_package_path",           err |-> "PackagePathError"],
       [step |-> "fs_copy",                    err |-> "Io"],
       [step |-> "Library_new",                err |-> "DllLoad"],
       [step |-> "get_MyOptRpcClientInitialize", err |-> "DllLoad"],
       [step |-> "init_call",                  err |-> "RpcInitFailed"],
       [step |-> "get_SetCallback",            err |-> "DllLoad"] >>

\* Positions at which a thread holds the guard it took in new().
Owning == {"init", "init_failed", "live", "drop_release"}

Owners == {t \in Threads : tpc[t] \in Owning}

GuardInit ==
    /\ INSTANCE_EXISTS = FALSE
    /\ tpc = [t \in Threads |-> "idle"]
    /\ tstep = [t \in Threads |-> 1]
    /\ tres = [t \in Threads |-> "none"]
    /\ teardown = [t \in Threads |-> "none"]

\* A guard acquisition that looks at nothing: it always proceeds.
NewSwapUnchecked(t) ==
    /\ tpc[t] = "idle"
    /\ INSTANCE_EXISTS' = TRUE
    /\ tpc' = [tpc EXCEPT ![t] = "init"]
    /\ tstep' = [tstep EXCEPT ![t] = 1]
    /\ tres' = [tres EXCEPT ![t] = "none"]
    /\ UNCHANGED teardown
    /\ UNCHANGED nonGuardVars

\* new(), line 200-202: INSTANCE_EXISTS.swap(true); the old value decides.
NewSwap(t) ==
    /\ tpc[t] = "idle"
    /\ INSTANCE_EXISTS' = TRUE
    /\ IF INSTANCE_EXISTS
          THEN /\ tres' = [tres EXCEPT ![t] = "AlreadyInitialized"]
               /\ UNCHANGED <<tpc, tstep>>
          ELSE /\ tpc' = [tpc EXCEPT ![t] = "init"]
               /\ tstep' = [tstep EXCEPT ![t] = 1]
               /\ tres' = [tres EXCEPT ![t] = "none"]
    /\ UNCHANGED teardown
    /\ UNCHANGED nonGuardVars

\* One step of init_internal succeeds; after the last one new() returns Ok.
InitStepOk(t) ==
    /\ tpc[t] = "init"
    /\ IF tstep[t] = Len(InitSteps)
          THEN /\ tpc' = [tpc EXCEPT ![t] = "live"]
               /\ tres' = [tres EXCEPT ![t] = "Ok"]
               /\ tstep' = [tstep EXCEPT ![t] = 1]
          ELSE /\ tstep' = [tstep EXCEPT ![t] = tstep[t] + 1]
               /\ UNCHANGED <<tpc, tres>>
    /\ UNCHANGED <<INSTANCE_EXISTS, teardown>>
    /\ UNCHANGED nonGuardVars

\* One step of init_internal fails: init_internal returns Err(e) to new().
InitStepFail(t) ==
    /\ tpc[t] = "init"
    /\ tpc' = [tpc EXCEPT ![t] = "init_failed"]
    /\ UNCHANGED <<INSTANCE_EXISTS, tstep, tres, teardown>>
    /\ UNCHANGED nonGuardVars

\* An error arm that returns the error and forgets the guard.
NewReleaseLeaky(t) ==
    /\ tpc[t] = "init_failed"
    /\ tpc' = [tpc EXCEPT ![t] = "idle"]
    /\ tres' = [tres EXCEPT ![t] = InitSteps[tstep[t]].err]
    /\ tstep' = [tstep EXCEPT ![t] = 1]
    /\ UNCHANGED <<INSTANCE_EXISTS, teardown>>
    /\ UNCHANGED nonGuardVars

\* new(), line 206-209: the Err arm stores false, then returns the error.
NewRelease(t) ==
    /\ tpc[t] = "init_failed"
    /\ INSTANCE_EXISTS' = FALSE
    /\ tpc' = [tpc EXCEPT ![t] = "idle"]
    /\ tres' = [tres EXCEPT ![t] = InitSteps[tstep[t]].err]
    /\ tstep' = [tstep EXCEPT ![t] = 1]
    /\ UNCHANGED teardown
    /\ UNCHANGED nonGuardVars

\* drop(), line 403-408: look up MyOptRpcClientUninitialize, call it if found.
DropTeardown(t, resolved) ==
    /\ tpc[t] = "live"
    /\ tpc' = [tpc EXCEPT ![t] = "drop_release"]
    /\ teardown' = [teardown EXCEPT ![t] = IF resolved THEN "called" ELSE "unresolved"]
    /\ UNCHANGED <<INSTANCE_EXISTS, tstep, tres>>
    /\ UNCHANGED nonGuardVars

\* A drop that releases the guard only after a teardown that was called.
DropReleaseIfTornDown(t) ==
    /\ tpc[t] = "drop_release"
    /\ INSTANCE_EXISTS' = (IF teardown[t] = "called" THEN FALSE ELSE INSTANCE_EXISTS)
    /\ tpc' = [tpc EXCEPT ![t] = "idle"]
    /\ UNCHANGED <<tstep, tres, teardown>>
    /\ UNCHANGED nonGuardVars

\* drop(), line 409: INSTANCE_EXISTS.store(false), whatever happened before.
DropRelease(t) ==
    /\ tpc[t] = "drop_release"
    /\ INSTANCE_EXISTS' = FALSE
    /\ tpc' = [tpc EXCEPT ![t] = "idle"]
    /\ UNCHANGED <<tstep, tres, teardown>>
    /\ UNCHANGED nonGuardVars

(***************************************************************************)
(* Machine integers.                                                       *)
(***************************************************************************)
\* Rust `as u8` of an i32: the low eight bits.
AsU8(x) == x % 256

\* Rust `/` and `%` on i32 truncate toward zero (y > 0; \div rounds down).
TruncDiv(x, y) == IF x >= 0 \/ x % y = 0 THEN x \div y ELSE (x \div y) + 1
TruncRem(x, y) == x - y * TruncDiv(x, y)

\* i32::MAX.
MaxI32 == 2147483647

\* An addition that forgets its second operand.
WrapAddNoOffset(x, y) == x

\* x + y on i32 for y >= 0, wrapping past i32::MAX (a build without overflow
\* checks), computed without leaving the 32-bit range.
WrapAdd(x, y) ==
    IF x > MaxI32 - y THEN (-MaxI32 - 1) + ((x - (MaxI32 - y)) - 1) ELSE x + y

(***************************************************************************)
(* modes.rs: the five display modes.  A mode is a record [kind, a, b]:     *)
(* a is ManualMode.value / EyeCareMode.level / EReadingMode.grayscale,     *)
(* b is EReadingMode.temp; unused fields are 0.                            *)
(***************************************************************************)
NoMode     == [kind |-> "none",    a |-> 0, b |-> 0]
NormalMode == [kind |-> "Normal",  a |-> 0, b |-> 0]
VividMode  == [kind |-> "Vivid",   a |-> 0, b |-> 0]
ManualMode(value)         == [kind |-> "Manual",   a |-> value,     b |-> 0]
EyeCareMode(level)        == [kind |-> "EyeCare",  a |-> level,     b |-> 0]
EReadingMode(grayscale, temp) == [kind |-> "EReading", a |-> grayscale, b |-> temp]

ManualMode_from_controller_state(state)   == ManualMode(state.manual_slider)
EyeCareMode_from_controller_state(state)  == EyeCareMode(state.eyecare_level)
EReadingMode_from_controller_state(state) ==
    EReadingMode(state.ereading_grayscale, state.ereading_temp)

is_ereading(m) == m.kind = "EReading"

mode_id(m) ==
    CASE m.kind = "Normal"   -> 1
      [] m.kind = "Vivid"    -> 2
      [] m.kind = "Manual"   -> 6
      [] m.kind = "EyeCare"  -> 7
      [] OTHER               -> -1

\* Results of operations: Ok(mode), Ok(()) (mode = NoMode), Err(e), or a panic.
NoRet      == [tag |-> "none",  mode |-> NoMode, err |-> ""]
Ok(m)      == [tag |-> "Ok",    mode |-> m,      err |-> ""]
OkUnit     == Ok(NoMode)
Err(e)     == [tag |-> "Err",   mode |-> NoMode, err |-> e]
DimmingFailed(c) == [tag |-> "Err", mode |-> NoMode, err |-> "DimmingFailed", code |-> c]
Panicked   == [tag |-> "Panic", mode |-> NoMode, err |-> "attempt to subtract with overflow"]

\* ControllerError::InvalidSliderValue { mode, value, min, max }.
InvalidSliderValue(name, value, min, max) ==
    [tag |-> "Err", mode |-> NoMode, err |-> "InvalidSliderValue",
     name |-> name, value |-> value, min |-> min, max |-> max]

\* An EReadingMode::new that checks only the upper bound.
EReadingMode_new_upper_only(grayscale, temp) ==
    IF grayscale > 5
       THEN InvalidSliderValue("EReading grayscale", grayscale, 1, 5)
       ELSE Ok(EReadingMode(grayscale, temp))

\* The constructors, modes.rs:36, 71, 112-122, 162-172, 218-228; the
\* arguments are u8.
NormalMode_new == Ok(NormalMode)
VividMode_new  == Ok(VividMode)
ManualMode_new(value) ==
    IF value > 100 THEN InvalidSliderValue("Manual", value, 0, 100)
                   ELSE Ok(ManualMode(value))
EyeCareMode_new(level) ==
    IF level > 4 THEN InvalidSliderValue("EyeCare", level, 0, 4)
                 ELSE Ok(EyeCareMode(level))
EReadingMode_new(grayscale, temp) ==
    IF grayscale < 1 \/ grayscale > 5
       THEN InvalidSliderValue("EReading grayscale", grayscale, 1, 5)
       ELSE Ok(EReadingMode(grayscale, temp))

\* The constructor of the kind k, called with a (and b for EReadingMode).
mode_new(k, a, b) ==
    CASE k = "Normal"   -> NormalMode_new
      [] k = "Vivid"    -> VividMode_new
      [] k = "Manual"   -> ManualMode_new(a)
      [] k = "EyeCare"  -> EyeCareMode_new(a)
      [] k = "EReading" -> EReadingMode_new(a, b)

(***************************************************************************)
(* controller.rs: callback_state.                                          *)
(***************************************************************************)
StaticsInit ==
    /\ CURRENT_MODE = -1
    /\ IS_MONOCHROME = FALSE
    /\ LAST_NON_EREADING_MODE = 1
    /\ MANUAL_SLIDER = 50
    /\ EYECARE_SLIDER = 2
    /\ EREADING_GRAYSCALE = 3
    /\ EREADING_TEMP = 562
    /\ CURRENT_DIMMING = -1

\* No callback is executing, no get_state is under way beside one, no
\* thread is inside a toggle of the mock.
CbNone  == [step |-> "none", n |-> 0, func |-> 0, data |-> 0,
            text |-> [null |-> TRUE, parts |-> << >>], pre |-> << >>]
RdNone  == [n |-> 0, got |-> << >>]
TogIdle == [pc |-> "idle", state |-> << >>]
FineInit ==
    /\ cb = CbNone
    /\ rd = RdNone
    /\ tog = [t \in Threads |-> TogIdle]

\* snapshot(), line 73-84: the sliders are narrowed to u8.
snapshot ==
    [ mode_id                |-> CURRENT_MODE,
      is_monochrome          |-> IS_MONOCHROME,
      dimming                |-> CURRENT_DIMMING,
      manual_slider          |-> AsU8(MANUAL_SLIDER),
      eyecare_level          |-> AsU8(EYECARE_SLIDER),
      ereading_grayscale     |-> AsU8(EREADING_GRAYSCALE),
      ereading_temp          |-> AsU8(EREADING_TEMP),
      last_non_ereading_mode |-> LAST_NON_EREADING_MODE ]

\* The text argument of the callback: a null pointer, or a string given by its
\* comma-separated fields; a field is [ok, val]: whether it parses as an i32,
\* and the value if so.
Field(v)   == [ok |-> TRUE,  val |-> v]
BadField   == [ok |-> FALSE, val |-> 0]
NullText   == [null |-> TRUE,  parts |-> << >>]
Text(fs)   == [null |-> FALSE, parts |-> fs]

\* A split that loses the first field.
PartsShifted(text) == IF text.null THEN << BadField >> ELSE Tail(text.parts)

\* line 95-109: a null pointer is read as the string "null", then split on ','.
Parts(text) == IF text.null THEN << BadField >> ELSE text.parts

\* The callback failed: a panic in an extern "C" function ends the process.
CbPanicked == [CbNone EXCEPT !.step = "panicked"]

\* mode_callback, line 94-147.  The addition of line 138 overflows for a
\* payload above i32::MAX - 206: a build that checks overflow panics there,
\* one that does not wraps.
mode_callback(func, data, text) ==
    LET parts == Parts(text) IN
    CASE func = 18 ->
           LET mono == IF Len(parts) >= 3 /\ parts[3].ok
                          THEN parts[3].val # 0 ELSE IS_MONOCHROME IN
           /\ CURRENT_DIMMING' = IF Len(parts) >= 2 /\ parts[2].ok
                                    THEN parts[2].val ELSE CURRENT_DIMMING
           /\ IS_MONOCHROME' = mono
           /\ CURRENT_MODE' = data
           /\ lastWrites' = IF mono = IS_MONOCHROME THEN lastWrites ELSE 0
           /\ UNCHANGED <<LAST_NON_EREADING_MODE, MANUAL_SLIDER, EYECARE_SLIDER,
                          EREADING_GRAYSCALE, EREADING_TEMP, cb>>
      [] func = 20 ->
           /\ MANUAL_SLIDER' = data
           /\ UNCHANGED <<CURRENT_MODE, IS_MONOCHROME, LAST_NON_EREADING_MODE,
                          EYECARE_SLIDER, EREADING_GRAYSCALE, EREADING_TEMP,
                          CURRENT_DIMMING, lastWrites, cb>>
      [] func = 21 ->
           /\ EYECARE_SLIDER' = data
           /\ UNCHANGED <<CURRENT_MODE, IS_MONOCHROME, LAST_NON_EREADING_MODE,
                          MANUAL_SLIDER, EREADING_GRAYSCALE, EREADING_TEMP,
                          CURRENT_DIMMING, lastWrites, cb>>
      [] func = 27 ->
           \E checks \in BOOLEAN :
             IF checks /\ data > MaxI32 - 206
                THEN /\ cb' = CbPanicked
                     /\ UNCHANGED <<staticVars, lastWrites>>
                ELSE LET raw == WrapAdd(data, 206) IN
                     /\ EREADING_GRAYSCALE' = TruncDiv(raw, 256)
                     /\ EREADING_TEMP' = TruncRem(raw, 256)
                     /\ UNCHANGED <<CURRENT_MODE, IS_MONOCHROME, LAST_NON_EREADING_MODE,
                                    MANUAL_SLIDER, EYECARE_SLIDER, CURRENT_DIMMING,
                                    lastWrites, cb>>
      [] OTHER ->
           UNCHANGED <<staticVars, lastWrites, cb>>

(***************************************************************************)
(* The same two functions store by store and load by load: every store and *)
(* load is one SeqCst atomic access, so a snapshot() on one thread         *)
(* interleaves with the stores of a callback on the native thread.         *)
(***************************************************************************)
\* A code-18 callback that stores the mode identifier before the other two.
StoreOrderModeFirst == << "mode_id", "dimming", "is_monochrome" >>

\* The stores of the code-18 arm in program order, line 112, 117, 120.
StoreOrder == << "dimming", "is_monochrome", "mode_id" >>

\* The loads of snapshot() in program order, line 75-82.
LoadOrder ==
    << "mode_id", "is_monochrome", "dimming", "manual_slider", "eyecare_level",
       "ereading_grayscale", "ereading_temp", "last_non_ereading_mode" >>

otherVars == <<guardVars, mock, ctl, op, pc, current, target, ret, arg, conv,
               tog, mock0, nativeVars, pair, calls>>

\* line 94-107: the native thread enters mode_callback with a code-18 report.
CallbackEnter(data, text) ==
    /\ ctl = "asus"
    /\ cb.step = "none"
    /\ cb' = [step |-> "run", n |-> 0, func |-> 18, data |-> data, text |-> text,
              pre |-> snapshot]
    /\ UNCHANGED <<staticVars, rd, lastWrites, otherVars>>

\* line 109-120: the next store of the code-18 arm; a field that is missing
\* or does not parse stores nothing.
CallbackStore ==
    /\ cb.step = "run"
    /\ cb.n < Len(StoreOrder)
    /\ LET parts == Parts(cb.text)
           f     == StoreOrder[cb.n + 1]
           dim   == IF Len(parts) >= 2 /\ parts[2].ok
                       THEN parts[2].val ELSE CURRENT_DIMMING
           mono  == IF Len(parts) >= 3 /\ parts[3].ok
                       THEN parts[3].val # 0 ELSE IS_MONOCHROME
       IN /\ CURRENT_DIMMING' = IF f = "dimming" THEN dim ELSE CURRENT_DIMMING
          /\ IS_MONOCHROME' = IF f = "is_monochrome" THEN mono ELSE IS_MONOCHROME
          /\ CURRENT_MODE' = IF f = "mode_id" THEN cb.data ELSE CURRENT_MODE
          /\ lastWrites' = IF IS_MONOCHROME' = IS_MONOCHROME THEN lastWrites ELSE 0
    /\ cb' = [cb EXCEPT !.n = cb.n + 1]
    /\ UNCHANGED <<LAST_NON_EREADING_MODE, MANUAL_SLIDER, EYECARE_SLIDER,
                   EREADING_GRAYSCALE, EREADING_TEMP, rd, otherVars>>

\* line 122-128, 146-147: the debug line, and the callback returns.
CallbackReturn ==
    /\ cb.step = "run"
    /\ cb.n = Len(StoreOrder)
    /\ cb' = [cb EXCEPT !.step = "done"]
    /\ UNCHANGED <<staticVars, rd, lastWrites, otherVars>>

\* line 73-84: the next load of a snapshot() that another thread is taking.
SnapshotLoad ==
    /\ ctl = "asus"
    /\ rd.n < Len(LoadOrder)
    /\ rd' = [n |-> rd.n + 1, got |-> Append(rd.got, snapshot[LoadOrder[rd.n + 1]])]
    /\ UNCHANGED <<staticVars, cb, lastWrites, otherVars>>

\* The ControllerState that the snapshot() in progress returns.
Taken ==
    [f \in {LoadOrder[i] : i \in 1..Len(LoadOrder)} |->
        rd.got[CHOOSE i \in 1..Len(LoadOrder) : LoadOrder[i] = f]]

(***************************************************************************)
(* controller.rs: mode resolution and restoration.                         *)
(***************************************************************************)
\* A resolution that looks at the mode id first, and at the overlay only when
\* the id is none of the four known ones.
ResolveIdFirst(state) ==
    CASE state.mode_id = 1   -> Ok(NormalMode)
      [] state.mode_id = 2   -> Ok(VividMode)
      [] state.mode_id = 6   -> Ok(ManualMode_from_controller_state(state))
      [] state.mode_id = 7   -> Ok(EyeCareMode_from_controller_state(state))
      [] state.is_monochrome -> Ok(EReadingMode_from_controller_state(state))
      [] OTHER               -> Err("ModeNotDetected")

\* The match of mode_from_state, line 291-301 (mock.rs:83-90 is the same
\* match); the store of line 297 is made by the step that uses it.
mode_from_state(state) ==
    CASE state.mode_id = 1 /\ ~state.is_monochrome -> Ok(NormalMode)
      [] state.mode_id = 2 /\ ~state.is_monochrome -> Ok(VividMode)
      [] state.mode_id = 6 /\ ~state.is_monochrome -> Ok(ManualMode_from_controller_state(state))
      [] state.mode_id = 7 /\ ~state.is_monochrome -> Ok(EyeCareMode_from_controller_state(state))
      [] state.is_monochrome                       -> Ok(EReadingMode_from_controller_state(state))
      [] OTHER                                     -> Err("ModeNotDetected")

\* A resolution that stores the mode id whatever the flag.
LastAlwaysCaptured(state) == state.mode_id

\* A resolution that stores nothing.
LastNotCaptured(state) == LAST_NON_EREADING_MODE

\* mode_from_state, line 296-297: what LAST_NON_EREADING_MODE holds after
\* resolving `state`: store_last_non_ereading_mode(state.mode_id) in the
\* (_, true) arm only.
LastAfterResolve(state) ==
    IF state.is_monochrome THEN state.mode_id ELSE LAST_NON_EREADING_MODE

\* A restoration that reads the state's mode id in place of the saved one.
RestoreFromModeId(state) ==
    CASE state.mode_id = 2 -> VividMode
      [] state.mode_id = 6 -> ManualMode_from_controller_state(state)
      [] state.mode_id = 7 -> EyeCareMode_from_controller_state(state)
      [] OTHER             -> NormalMode

\* restore_last_mode, line 304-311 (and mock.rs:108-113).
restore_last_mode(state) ==
    CASE state.last_non_ereading_mode = 2 -> VividMode
      [] state.last_non_ereading_mode = 6 -> ManualMode_from_controller_state(state)
      [] state.last_non_ereading_mode = 7 -> EyeCareMode_from_controller_state(state)
      [] OTHER                            -> NormalMode

(***************************************************************************)
(* The native component.  The DLL is not part of the repository: what it   *)
(* does with a call is either left open (any callback may arrive at any    *)
(* time: Spec) or taken to be a component that applies each request and    *)
(* reports its state when queried (SpecDevice).  Operations take d: TRUE   *)
(* when the reporting component is modelled.                               *)
(***************************************************************************)
GetColorMode  == "MyOptGetSplendidColorModeFunc"
GetManual     == "MyOptGetSplendidManualModeFunc"
GetEyecare    == "MyOptGetSplendidEyecareModeFunc"
GetMonochrome == "MyOptGetSplendidMonochromeFunc"
SetSplendid   == "MyOptSetSplendidFunc"
SetManual     == "MyOptSetSplendidManualFunc"
SetEyecare    == "MyOptSetSplendidEyecareFunc"
SetMonochrome == "MyOptSetSplendidMonochromeFunc"
SetDimming    == "MyOptSetSplendidDimmingFunc"

NoCall == [sym |-> "none", value |-> 0]

\* The report a reporting component queues for a query, from its state.
DeviceReport(sym) ==
    CASE sym = GetColorMode ->
           [func |-> 18, data |-> dev.mode,
            text |-> Text(<< Field(0), Field(dev.dimming),
                             Field(IF dev.mono THEN 1 ELSE 0) >>)]
      [] sym = GetManual     -> [func |-> 20, data |-> dev.manual,  text |-> NullText]
      [] sym = GetEyecare    -> [func |-> 21, data |-> dev.eyecare, text |-> NullText]
      [] sym = GetMonochrome -> [func |-> 27, data |-> dev.packed,  text |-> NullText]

\* What a reporting component does with a set request: a preset, manual or
\* eye-care request selects that mode and leaves the overlay; a monochrome
\* request turns the overlay on and keeps the mode id.
DeviceApply(sym, value) ==
    CASE sym = SetSplendid   -> [dev EXCEPT !.mode = value, !.mono = FALSE]
      [] sym = SetManual     -> [dev EXCEPT !.mode = 6, !.manual = value, !.mono = FALSE]
      [] sym = SetEyecare    -> [dev EXCEPT !.mode = 7, !.eyecare = value, !.mono = FALSE]
      [] sym = SetMonochrome -> [dev EXCEPT !.mono = TRUE, !.packed = value]
      [] sym = SetDimming    -> [dev EXCEPT !.dimming = value]

\* A query that never reaches the native component.
NativeGetSkipped(d, sym) == UNCHANGED nativeVars

\* call_rpc_get, line 242-248, after the symbol was found: func(self.client).
NativeGet(d, sym) ==
    /\ lastCall' = [sym |-> sym, value |-> 0]
    /\ IF d THEN /\ Len(pending) < MaxPending
                 /\ pending' = Append(pending, DeviceReport(sym))
            ELSE UNCHANGED pending
    /\ UNCHANGED <<dev, status>>

\* set_splendid_mode / set_monochrome_mode, line 253-274, after the symbol was
\* found: the native set call returns st, which is not looked at.
NativeSet(d, call, st) ==
    /\ lastCall' = call
    /\ status' = st
    /\ dev' = IF d THEN DeviceApply(call.sym, call.value) ELSE dev
    /\ UNCHANGED pending

\* Whether a symbol lookup (lib.get) may fail: not with the reporting
\* component, which exports every entry point.
Lookups(d) == IF d THEN {TRUE} ELSE BOOLEAN

\* The i64 a native set call may return: 0 from the reporting component,
\* which does what it is asked; otherwise 0 or an error code.
Statuses(d) == IF d THEN {0} ELSE {0, 5}

(***************************************************************************)
(* modes.rs: apply.  The native call a mode makes.                         *)
(***************************************************************************)
\* set_monochrome_mode, line 270: the packed value, from two u8.
MonochromeValue(grayscale, temp) == (grayscale * 256) + temp - 206

\* EReadingMode::apply underflows on `self.grayscale - 1` when grayscale is 0.
Underflows(m) == is_ereading(m) /\ m.a = 0

\* An apply that sends the user-facing grayscale.
apply_grayscale_as_given(m) ==
    CASE m.kind = "Normal"   -> [sym |-> SetSplendid, value |-> 1]
      [] m.kind = "Vivid"    -> [sym |-> SetSplendid, value |-> 2]
      [] m.kind = "Manual"   -> [sym |-> SetManual,   value |-> m.a]
      [] m.kind = "EyeCare"  -> [sym |-> SetEyecare,  value |-> m.a]
      [] m.kind = "EReading" ->
           [sym |-> SetMonochrome, value |-> MonochromeValue(m.a, m.b)]

\* DisplayMode::apply of each mode (modes.rs:48,83,132,182,240); u8
\* subtraction wraps where the build does not check it.
apply(m) ==
    CASE m.kind = "Normal"   -> [sym |-> SetSplendid, value |-> 1]
      [] m.kind = "Vivid"    -> [sym |-> SetSplendid, value |-> 2]
      [] m.kind = "Manual"   -> [sym |-> SetManual,   value |-> m.a]
      [] m.kind = "EyeCare"  -> [sym |-> SetEyecare,  value |-> m.a]
      [] m.kind = "EReading" ->
           [sym |-> SetMonochrome, value |-> MonochromeValue(AsU8(m.a - 1), m.b)]

(***************************************************************************)
(* History of toggle pairs.                                                *)
(***************************************************************************)
PairNone == [phase |-> "none", m |-> 0, val |-> 0]

\* The slider value that belongs to the mode id of a state.
SliderOf(state) ==
    CASE state.mode_id = 6 -> state.manual_slider
      [] state.mode_id = 7 -> state.eyecare_level
      [] OTHER             -> 0

\* An operation begins: only a toggle that follows a toggle continues a pair.
PairOnStart(o) ==
    IF o = "toggle_e_reading" /\ pair.phase = "entered" THEN pair ELSE PairNone

\* A toggle has resolved the current mode r from `state`.
PairOnDetect(state, r) ==
    IF pair.phase = "entered" THEN pair
    ELSE IF r.tag = "Ok" /\ ~is_ereading(r.mode)
         THEN [phase |-> "entering", m |-> state.mode_id, val |-> SliderOf(state)]
         ELSE PairNone

\* A toggle returns r.
PairOnReturn(p, r) ==
    CASE p.phase = "entered"  -> [p EXCEPT !.phase = "done"]
      [] p.phase = "entering" ->
           [p EXCEPT !.phase = IF r.tag = "Ok" /\ is_ereading(r.mode)
                                  THEN "entered" ELSE "failed"]
      [] OTHER -> PairNone

Min(a, b) == IF a <= b THEN a ELSE b

(***************************************************************************)
(* AsusController: the DisplayController operations (controller.rs:        *)
(* 314-399), one thread calling them on a live controller, step by step.   *)
(* Positions: "idle"; "settle" (get_current_mode sleeping after its query);*)
(* "state2" (toggle_e_reading before its own get_state); "apply" (before   *)
(* set_mode); "refresh1".."refresh3" (the queries of refresh_sliders);     *)
(* "settle2" (sync_all_sliders sleeping); "panicked".                      *)
(***************************************************************************)
\* Modes a caller builds with the constructors and hands to set_mode.
UserModes ==
    {NormalMode, VividMode, ManualMode(75), EyeCareMode(3), EReadingMode(1, 50)}

\* An operation returns r: its locals are gone.
Finish(r) ==
    /\ ret' = r
    /\ pc' = "idle"
    /\ current' = NoMode
    /\ target' = NoMode

\* The pair history is kept for the mock and for the reporting component.
Track(d, p) == IF d THEN p ELSE PairNone

\* The caller begins an operation; with the reporting component it begins at
\* most MaxCalls of them.
Begin(d) ==
    /\ d => calls < MaxCalls
    /\ calls' = IF d THEN calls + 1 ELSE calls

\* get_current_mode, line 371: the mode query; also the first statement of
\* toggle_e_reading (383, `?`) and of sync_all_sliders (329, result dropped).
AsusQueryMode(d, o) ==
    /\ ctl = "asus" /\ pc = "idle"
    /\ o \in {"get_current_mode", "toggle_e_reading", "sync_all_sliders"}
    /\ Begin(d)
    /\ op' = o
    /\ \E found \in Lookups(d) :
         IF found
            THEN /\ NativeGet(d, GetColorMode)
                 /\ pc' = "settle"
                 /\ ret' = NoRet
                 /\ pair' = Track(d, PairOnStart(o))
                 /\ UNCHANGED <<current, target>>
            ELSE /\ UNCHANGED nativeVars
                 /\ IF o = "sync_all_sliders"
                       THEN /\ pc' = "refresh1" /\ ret' = NoRet /\ pair' = PairNone
                            /\ UNCHANGED <<current, target>>
                       ELSE /\ Finish(Err("DllLoad"))
                            /\ pair' = IF o = "toggle_e_reading"
                                          THEN Track(d, PairOnReturn(PairOnStart(o), Err("DllLoad")))
                                          ELSE PairNone
    /\ UNCHANGED <<ctl, staticVars, mock, guardVars, lastWrites>>
    /\ UNCHANGED <<arg, conv, cb, fineVars>>

\* get_current_mode, line 372-375: the sleep ends, get_state, mode_from_state
\* (which stores the state's mode id as the last non-e-reading mode when the
\* overlay is on, line 297).
AsusDetect(d) ==
    /\ ctl = "asus" /\ pc = "settle"
    /\ d => pending = << >>
    /\ LET state == snapshot
           r     == mode_from_state(state)
       IN /\ LAST_NON_EREADING_MODE' = LastAfterResolve(state)
          /\ lastWrites' = IF state.is_monochrome THEN Min(lastWrites + 1, MaxWrites)
                                                  ELSE lastWrites
          /\ CASE op = "get_current_mode" ->
                    Finish(r) /\ UNCHANGED pair
               [] op = "toggle_e_reading" ->
                    IF r.tag = "Err"
                       THEN Finish(r) /\ pair' = Track(d, PairOnReturn(pair, r))
                       ELSE /\ current' = r.mode
                            /\ pc' = "state2"
                            /\ pair' = Track(d, PairOnDetect(state, r))
                            /\ UNCHANGED <<ret, target>>
               [] op = "sync_all_sliders" ->
                    pc' = "refresh1" /\ UNCHANGED <<current, target, ret, pair>>
    /\ UNCHANGED <<ctl, op, nativeVars, mock, guardVars, calls,
                   CURRENT_MODE, IS_MONOCHROME, MANUAL_SLIDER, EYECARE_SLIDER,
                   EREADING_GRAYSCALE, EREADING_TEMP, CURRENT_DIMMING>>
    /\ UNCHANGED <<arg, conv, cb, fineVars>>

\* The choice of toggle_e_reading's target, line 387-394, from `current` and
\* the state read at line 386.
ToggleTarget(cur, state) ==
    IF is_ereading(cur) THEN restore_last_mode(state)
                        ELSE EReadingMode_from_controller_state(state)

\* toggle_e_reading, line 386-394: its own get_state, then the target.
AsusTarget ==
    /\ ctl = "asus" /\ pc = "state2"
    /\ target' = ToggleTarget(current, snapshot)
    /\ pc' = "apply"
    /\ UNCHANGED <<ctl, op, current, ret, staticVars, nativeVars, mock, guardVars, histVars>>
    /\ UNCHANGED <<arg, conv, cb, fineVars>>

\* set_mode, line 378-380, called by a user with a mode of theirs.
AsusSetMode(d, m) ==
    /\ ctl = "asus" /\ pc = "idle"
    /\ Begin(d)
    /\ op' = "set_mode"
    /\ target' = m
    /\ pc' = "apply"
    /\ ret' = NoRet
    /\ pair' = PairNone
    /\ UNCHANGED <<ctl, current, staticVars, nativeVars, mock, guardVars, lastWrites>>
    /\ UNCHANGED <<arg, conv, cb, fineVars>>

\* mode.apply(self), line 379 / 396-397: the subtraction of EReadingMode::apply
\* (panics where the build checks overflow), the symbol lookup, the native
\* call; toggle_e_reading then returns the target.
AsusApply(d) ==
    /\ ctl = "asus" /\ pc = "apply"
    /\ \E found \in Lookups(d), checks \in BOOLEAN, st \in Statuses(d) :
         LET r == IF Underflows(target) /\ checks THEN Panicked
                  ELSE IF ~found THEN Err("DllLoad")
                  ELSE IF op = "toggle_e_reading" THEN Ok(target) ELSE OkUnit
         IN /\ IF r.tag = "Ok" THEN NativeSet(d, apply(target), st)
                               ELSE UNCHANGED nativeVars
            /\ ret' = r
            /\ pc' = IF r.tag = "Panic" THEN "panicked" ELSE "idle"
            /\ current' = NoMode
            /\ target' = NoMode
            /\ pair' = IF op = "toggle_e_reading" THEN Track(d, PairOnReturn(pair, r))
                                                  ELSE pair
    /\ UNCHANGED <<ctl, op, staticVars, mock, guardVars, lastWrites, calls>>
    /\ UNCHANGED <<arg, conv, cb, fineVars>>

\* refresh_sliders, line 319-324, called directly.
AsusRefreshStart(d) ==
    /\ ctl = "asus" /\ pc = "idle"
    /\ Begin(d)
    /\ op' = "refresh_sliders"
    /\ pc' = "refresh1"
    /\ ret' = NoRet
    /\ pair' = PairNone
    /\ UNCHANGED <<ctl, current, target, staticVars, nativeVars, mock, guardVars,
                   lastWrites>>
    /\ UNCHANGED <<arg, conv, cb, fineVars>>

\* The three queries with the last two exchanged.
RefreshQueriesExchanged == << GetManual, GetMonochrome, GetEyecare >>

RefreshQueries == << GetManual, GetEyecare, GetMonochrome >>
RefreshPcs     == << "refresh1", "refresh2", "refresh3" >>

\* One of the three queries of refresh_sliders, each with `?`; after the third
\* refresh_sliders returns Ok and sync_all_sliders goes to sleep (line 331).
AsusRefreshStep(d, i) ==
    /\ ctl = "asus" /\ pc = RefreshPcs[i]
    /\ \E found \in Lookups(d) :
         IF found
            THEN /\ NativeGet(d, RefreshQueries[i])
                 /\ IF i < Len(RefreshPcs)
                       THEN pc' = RefreshPcs[i + 1] /\ UNCHANGED <<ret, current, target>>
                       ELSE IF op = "sync_all_sliders"
                               THEN pc' = "settle2" /\ UNCHANGED <<ret, current, target>>
                               ELSE Finish(OkUnit)
            ELSE /\ UNCHANGED nativeVars
                 /\ Finish(Err("DllLoad"))
    /\ UNCHANGED <<ctl, op, staticVars, mock, guardVars, histVars>>
    /\ UNCHANGED <<arg, conv, cb, fineVars>>

\* sync_all_sliders, line 331-343: the sleep ends, get_state for the log, Ok.
AsusSyncDone(d) ==
    /\ ctl = "asus" /\ pc = "settle2"
    /\ d => pending = << >>
    /\ Finish(OkUnit)
    /\ UNCHANGED <<ctl, op, staticVars, nativeVars, mock, guardVars, histVars>>
    /\ UNCHANGED <<arg, conv, cb, fineVars>>

(***************************************************************************)
(* Dimming: conversions and set_dimming / set_dimming_percent              *)
(* (controller.rs:277-285, 346-368; mock.rs:71-79).                        *)
(***************************************************************************)
\* i32::clamp(lo, hi).
clamp(x, lo, hi) == IF x < lo THEN lo ELSE IF x > hi THEN hi ELSE x

\* A quotient cut off instead of rounded.
RoundDivDown(n, d) == n \div d

\* f32::round of n / d for n >= 0, d > 0: to nearest, halves away from zero.
RoundDiv(n, d) == ((2 * n) + d) \div (2 * d)

\* A percent_to_dimming that cuts the quotient off.
percent_to_dimming_floor(percent) == 40 + ((percent * 60) \div 100)

\* percent_to_dimming, line 283-285, on the percentages both callers hand it
\* (clamped to 0..100): 40 + (percent as f32 / 100.0 * 60.0).round().  The
\* exact quotient 0.6 * percent is never within 0.1 of a half, and the f32
\* error is below 0.00001, so the f32 result is the rounded exact quotient.
percent_to_dimming(percent) == 40 + RoundDiv(percent * 60, 100)

\* A dimming_to_percent that scales by 100 units instead of 60.
dimming_to_percent_wide(splendid_value) ==
    RoundDiv((clamp(splendid_value, 40, 100) - 40) * 100, 100)

\* A dimming_to_percent that reads a value below the range as full.
dimming_to_percent_low_as_full(splendid_value) ==
    IF splendid_value < 40 THEN 100
    ELSE RoundDiv((clamp(splendid_value, 40, 100) - 40) * 100, 60)

\* dimming_to_percent, line 277-280: ((clamped - 40) as f32 / 60.0 * 100.0)
\* .round(); the exact quotient is never within 0.16 of a half.
dimming_to_percent(splendid_value) ==
    RoundDiv((clamp(splendid_value, 40, 100) - 40) * 100, 60)

\* A set_dimming whose native call fails to a store all the same.
set_dimming_store_always(d, level, found, st) ==
    LET lv == clamp(level, 40, 100) IN
    IF ~found
       THEN /\ ret' = Err("DllLoad")
            /\ UNCHANGED <<nativeVars, staticVars>>
       ELSE /\ lastCall' = [sym |-> SetDimming, value |-> lv]
            /\ status' = st
            /\ dev' = IF d THEN DeviceApply(SetDimming, lv) ELSE dev
            /\ UNCHANGED pending
            /\ CURRENT_DIMMING' = lv
            /\ ret' = IF st = 0 THEN OkUnit ELSE DimmingFailed(st)
            /\ UNCHANGED <<CURRENT_MODE, IS_MONOCHROME, LAST_NON_EREADING_MODE,
                           MANUAL_SLIDER, EYECARE_SLIDER, EREADING_GRAYSCALE,
                           EREADING_TEMP>>

\* A set_dimming that hands its argument to the native call as it came.
set_dimming_unclamped(d, level, found, st) ==
    IF ~found
       THEN /\ ret' = Err("DllLoad")
            /\ UNCHANGED <<nativeVars, staticVars>>
       ELSE /\ lastCall' = [sym |-> SetDimming, value |-> level]
            /\ status' = st
            /\ dev' = IF d THEN DeviceApply(SetDimming, level) ELSE dev
            /\ UNCHANGED pending
            /\ IF st = 0
                  THEN /\ CURRENT_DIMMING' = level
                       /\ ret' = OkUnit
                  ELSE /\ UNCHANGED CURRENT_DIMMING
                       /\ ret' = DimmingFailed(st)
            /\ UNCHANGED <<CURRENT_MODE, IS_MONOCHROME, LAST_NON_EREADING_MODE,
                           MANUAL_SLIDER, EYECARE_SLIDER, EREADING_GRAYSCALE,
                           EREADING_TEMP>>

\* The body of AsusController::set_dimming, line 346-363: clamp, symbol
\* lookup, native call returning st, and on 0 store_dimming(level).  A callback
\* that arrives between the native call and the store has its dimming
\* overwritten by the store, as if it had arrived before the call: the body is
\* one step.
set_dimming(d, level, found, st) ==
    LET lv == clamp(level, 40, 100) IN
    IF ~found
       THEN /\ ret' = Err("DllLoad")
            /\ UNCHANGED <<nativeVars, staticVars>>
       ELSE /\ lastCall' = [sym |-> SetDimming, value |-> lv]
            /\ status' = st
            /\ dev' = IF d THEN DeviceApply(SetDimming, lv) ELSE dev
            /\ UNCHANGED pending
            /\ IF st = 0
                  THEN /\ CURRENT_DIMMING' = lv
                       /\ ret' = OkUnit
                  ELSE /\ UNCHANGED CURRENT_DIMMING
                       /\ ret' = DimmingFailed(st)
            /\ UNCHANGED <<CURRENT_MODE, IS_MONOCHROME, LAST_NON_EREADING_MODE,
                           MANUAL_SLIDER, EYECARE_SLIDER, EREADING_GRAYSCALE,
                           EREADING_TEMP>>

\* set_dimming(level) or set_dimming_percent(percent) of AsusController is
\* called, line 346 / 365.
AsusSetDimming(d, o, x) ==
    /\ ctl = "asus" /\ pc = "idle"
    /\ o \in {"set_dimming", "set_dimming_percent"}
    /\ Begin(d)
    /\ op' = o
    /\ arg' = x
    /\ UNCHANGED <<conv, cb, fineVars>>
    /\ pc' = "dimming"
    /\ ret' = NoRet
    /\ pair' = PairNone
    /\ UNCHANGED <<ctl, current, target, staticVars, nativeVars, mock, guardVars,
                   lastWrites>>

\* A set_dimming_percent that hands on the clamped percentage as the level.
percent_level_unconverted(percent) == clamp(percent, 0, 100)

\* The level set_dimming_percent hands to set_dimming, line 366 (mock.rs:77).
percent_level(percent) == percent_to_dimming(clamp(percent, 0, 100))

\* set_dimming, line 347-362, with its own argument or, from
\* set_dimming_percent (line 366-367), with the converted percentage.
AsusDimmingBody(d) ==
    /\ ctl = "asus" /\ pc = "dimming"
    /\ \E found \in Lookups(d), st \in Statuses(d) :
         set_dimming(d, IF op = "set_dimming" THEN arg ELSE percent_level(arg),
                     found, st)
    /\ pc' = "idle"
    /\ UNCHANGED <<ctl, op, arg, conv, cb, fineVars, current, target, mock, guardVars, histVars>>

\* MockController::set_dimming(level), mock.rs:71-74.
MockSetDimming(level) ==
    /\ ctl = "mock" /\ pc = "idle"
    /\ op' = "set_dimming"
    /\ arg' = level
    /\ UNCHANGED <<conv, cb, fineVars>>
    /\ mock' = [mock EXCEPT !.dimming = clamp(level, 40, 100)]
    /\ ret' = OkUnit
    /\ pair' = PairNone
    /\ UNCHANGED <<ctl, pc, current, target, staticVars, nativeVars, guardVars,
                   lastWrites, calls>>

\* MockController::set_dimming_percent(percent), mock.rs:76-79.
MockSetDimmingPercent(percent) ==
    /\ ctl = "mock" /\ pc = "idle"
    /\ op' = "set_dimming_percent"
    /\ arg' = percent
    /\ UNCHANGED <<conv, cb, fineVars>>
    /\ mock' = [mock EXCEPT !.dimming = clamp(percent_level(percent), 40, 100)]
    /\ ret' = OkUnit
    /\ pair' = PairNone
    /\ UNCHANGED <<ctl, pc, current, target, staticVars, nativeVars, guardVars,
                   lastWrites, calls>>

\* A caller of the two conversions (associated functions, no controller is
\* needed): it calls one with a value of its own or with the result of its
\* last call, and keeps what it called and got.
Last(q) == q[Len(q)]

CallPercentToDimming(percent) ==
    /\ pc = "idle"
    /\ Len(conv) < MaxConv
    /\ percent \in 0..100
    /\ op' = "percent_to_dimming"
    /\ arg' = percent
    /\ conv' = Append(conv, [f |-> "percent_to_dimming", x |-> percent,
                             y |-> percent_to_dimming(percent)])
    /\ UNCHANGED <<ctl, pc, current, target, ret, staticVars, nativeVars, mock,
                   guardVars, histVars, cb, fineVars>>

CallDimmingToPercent(splendid_value) ==
    /\ pc = "idle"
    /\ Len(conv) < MaxConv
    /\ op' = "dimming_to_percent"
    /\ arg' = splendid_value
    /\ conv' = Append(conv, [f |-> "dimming_to_percent", x |-> splendid_value,
                             y |-> dimming_to_percent(splendid_value)])
    /\ UNCHANGED <<ctl, pc, current, target, ret, staticVars, nativeVars, mock,
                   guardVars, histVars, cb, fineVars>>

(***************************************************************************)
(* Callbacks.                                                              *)
(***************************************************************************)
\* Inputs of callbacks whose origin is left open.
CallbackFuncs == {18, 20, 21, 27, 5}
CallbackData(func) ==
    CASE func = 18 -> {1, 2, 6, 7, 3}
      [] func = 20 -> {75}
      [] func = 21 -> {3}
      [] func = 27 -> {MonochromeValue(0, 50)}
      [] OTHER     -> {0}
CallbackTexts(func) ==
    IF func = 18
       THEN {Text(<< Field(0), Field(70), Field(0) >>),
             Text(<< Field(0), Field(70), Field(1) >>)}
       ELSE {NullText}

\* The native session invokes mode_callback on a thread of its own.
ExternalCallback(func, data, text) ==
    /\ ctl = "asus"
    /\ cb.step # "panicked"
    /\ mode_callback(func, data, text)
    /\ UNCHANGED <<opVars, nativeVars, mock, guardVars, pair, calls>>

\* A delivery in which an unknown code is handled as a mode report.
DeliverReportUnknownAsMode ==
    /\ ctl = "asus"
    /\ pending # << >>
    /\ cb.step # "panicked"
    /\ mode_callback(IF Head(pending).func \in {18, 20, 21, 27}
                        THEN Head(pending).func ELSE 18,
                     Head(pending).data, Head(pending).text)
    /\ pending' = Tail(pending)
    /\ UNCHANGED <<opVars, dev, lastCall, status, mock, guardVars, pair, calls>>

\* The reporting component delivers its oldest queued report.
DeliverReport ==
    /\ ctl = "asus"
    /\ pending # << >>
    /\ cb.step # "panicked"
    /\ mode_callback(Head(pending).func, Head(pending).data, Head(pending).text)
    /\ pending' = Tail(pending)
    /\ UNCHANGED <<opVars, dev, lastCall, status, mock, guardVars, pair, calls>>

(***************************************************************************)
(* MockController (mock.rs), one caller; each operation takes the Mutex    *)
(* for each of its reads and writes, so with one caller it is one step.    *)
(***************************************************************************)
\* MockController::new(), line 29-42.
MockNew ==
    [ mode_id |-> 1, is_monochrome |-> FALSE, dimming |-> 70, manual_slider |-> 50,
      eyecare_level |-> 2, ereading_grayscale |-> 4, ereading_temp |-> 50,
      last_non_ereading_mode |-> 1 ]

\* States handed to MockController::with_state, line 45-49.
MockStates ==
    [ mode_id : {1, 2, 6, 7, 3}, is_monochrome : BOOLEAN, dimming : {70},
      manual_slider : {50, 75}, eyecare_level : {2, 3}, ereading_grayscale : {4},
      ereading_temp : {50}, last_non_ereading_mode : {1, 2, 6, 7, 3, -1} ]

\* A set_mode that also records the value of a Manual mode.
mock_set_mode_recording(state, m) ==
    IF is_ereading(m)
       THEN [state EXCEPT !.last_non_ereading_mode = state.mode_id,
                          !.is_monochrome = TRUE]
       ELSE [state EXCEPT !.mode_id = mode_id(m), !.is_monochrome = FALSE,
                          !.manual_slider = IF m.kind = "Manual" THEN m.a ELSE @]

\* A set_mode that stores the mode's identifier for every variant.
mock_set_mode_id_always(state, m) ==
    [state EXCEPT !.last_non_ereading_mode = IF is_ereading(m) THEN state.mode_id ELSE @,
                  !.mode_id = mode_id(m),
                  !.is_monochrome = is_ereading(m)]

\* MockController::set_mode, line 93-103: the state it leaves.
mock_set_mode(state, m) ==
    IF is_ereading(m)
       THEN [state EXCEPT !.last_non_ereading_mode = state.mode_id,
                          !.is_monochrome = TRUE]
       ELSE [state EXCEPT !.mode_id = mode_id(m), !.is_monochrome = FALSE]

\* The stores of set_mode to last_non_ereading_mode since the flag changed.
MockHistory(state, m) ==
    lastWrites' = IF ~is_ereading(m) THEN 0
                  ELSE IF state.is_monochrome THEN Min(lastWrites + 1, MaxWrites)
                  ELSE 1

\* MockController::get_current_mode, line 81-91.
MockGetCurrentMode ==
    /\ ctl = "mock" /\ pc = "idle"
    /\ op' = "get_current_mode"
    /\ ret' = mode_from_state(mock)
    /\ pair' = PairNone
    /\ UNCHANGED <<ctl, pc, current, target, mock, staticVars, nativeVars, guardVars,
                   lastWrites, calls>>
    /\ UNCHANGED <<arg, conv, cb, fineVars>>

\* MockController::set_mode, line 93-103.
MockSetMode(m) ==
    /\ ctl = "mock" /\ pc = "idle"
    /\ op' = "set_mode"
    /\ mock' = mock_set_mode(mock, m)
    /\ MockHistory(mock, m)
    /\ ret' = OkUnit
    /\ pair' = PairNone
    /\ UNCHANGED <<ctl, pc, current, target, staticVars, nativeVars, guardVars, calls>>
    /\ UNCHANGED <<arg, conv, cb, fineVars>>

\* MockController::toggle_e_reading, line 105-121: the mode it sets and returns.
mock_toggle_target(state) ==
    IF state.is_monochrome THEN restore_last_mode(state)
                           ELSE EReadingMode_from_controller_state(state)

MockToggle ==
    /\ ctl = "mock" /\ pc = "idle"
    /\ op' = "toggle_e_reading"
    /\ LET state == mock
           t     == mock_toggle_target(state)
       IN /\ mock' = mock_set_mode(state, t)
          /\ MockHistory(state, t)
          /\ ret' = Ok(t)
          /\ pair' = PairOnReturn(
                       PairOnDetect(state, mode_from_state(state)) , Ok(t))
    /\ UNCHANGED <<ctl, pc, current, target, staticVars, nativeVars, guardVars, calls>>
    /\ UNCHANGED <<arg, conv, cb, fineVars>>

\* toggle_e_reading of the mock as the threads run it: line 106, get_state
\* locks, clones and unlocks ...
TogGetState(t) ==
    /\ ctl = "mock"
    /\ tog[t].pc = "idle"
    /\ tog' = [tog EXCEPT ![t] = [pc |-> "read", state |-> mock]]
    /\ UNCHANGED <<mock, lastWrites>>
    /\ UNCHANGED <<staticVars, cb, rd, mock0, guardVars, ctl, op, pc, current, target,
                   ret, arg, conv, nativeVars, pair, calls>>

\* ... and line 107-120: the target from the clone, set_mode under a lock of
\* its own, and the return.
TogSetMode(t) ==
    /\ ctl = "mock"
    /\ tog[t].pc = "read"
    /\ LET m == mock_toggle_target(tog[t].state)
       IN /\ mock' = mock_set_mode(mock, m)
          /\ MockHistory(mock, m)
    /\ tog' = [tog EXCEPT ![t] = [pc |-> "done", state |-> tog[t].state]]
    /\ UNCHANGED <<staticVars, cb, rd, mock0, guardVars, ctl, op, pc, current, target,
                   ret, arg, conv, nativeVars, pair, calls>>

\* The state after n toggles run one after the other from state.
RECURSIVE Toggled(_, _)
Toggled(state, n) ==
    IF n = 0 THEN state
             ELSE Toggled(mock_set_mode(state, mock_toggle_target(state)), n - 1)

\* MockController::refresh_sliders / sync_all_sliders, line 63-69: Ok(()).
MockSync(o) ==
    /\ ctl = "mock" /\ pc = "idle"
    /\ o \in {"refresh_sliders", "sync_all_sliders"}
    /\ op' = o
    /\ ret' = OkUnit
    /\ pair' = PairNone
    /\ UNCHANGED <<ctl, pc, current, target, mock, staticVars, nativeVars, guardVars,
                   lastWrites, calls>>
    /\ UNCHANGED <<arg, conv, cb, fineVars>>

(***************************************************************************)
(* The specifications.                                                     *)
(***************************************************************************)
\* States of a reporting native component at the start.
DevStates ==
    [ mode : {1, 2, 6, 7}, mono : BOOLEAN, manual : {50, 75}, eyecare : {2, 3},
      packed : {MonochromeValue(2, 50), MonochromeValue(0, 50)}, dimming : {70} ]

DevIdle ==
    [ mode |-> 1, mono |-> FALSE, manual |-> 50, eyecare |-> 2,
      packed |-> MonochromeValue(2, 50), dimming |-> 70 ]

\* A controller exists (thread 1 made it) and nobody has called it yet.
CallerBase ==
    /\ ctl \in {"asus", "mock"}
    /\ INSTANCE_EXISTS = (ctl = "asus")
    /\ tpc = [t \in Threads |-> IF t = 1 /\ ctl = "asus" THEN "live" ELSE "idle"]
    /\ tstep = [t \in Threads |-> 1]
    /\ tres = [t \in Threads |-> IF t = 1 /\ ctl = "asus" THEN "Ok" ELSE "none"]
    /\ teardown = [t \in Threads |-> "none"]
    /\ StaticsInit
    /\ mock \in (IF ctl = "mock" THEN MockStates ELSE {MockNew})
    /\ op = "none" /\ pc = "idle"
    /\ current = NoMode /\ target = NoMode /\ ret = NoRet /\ arg = 0
    /\ conv = << >>
    /\ FineInit
    /\ pending = << >> /\ lastCall = NoCall /\ status = 0
    /\ lastWrites = 0
    /\ pair = PairNone
    /\ calls = 0

\* ... and what the mock was created with is not kept.
CallerInit == CallerBase /\ mock0 = MockNew

Ops == {"get_current_mode", "toggle_e_reading", "sync_all_sliders"}

\* The operations of both controllers, with the native component as d says.
Operations(d) ==
    \/ \E o \in Ops : AsusQueryMode(d, o)
    \/ AsusDetect(d)
    \/ AsusTarget
    \/ \E m \in UserModes : AsusSetMode(d, m)
    \/ AsusApply(d)
    \/ AsusRefreshStart(d)
    \/ \E i \in 1..Len(RefreshPcs) : AsusRefreshStep(d, i)
    \/ AsusSyncDone(d)
    \/ MockGetCurrentMode
    \/ \E m \in UserModes : MockSetMode(m)
    \/ MockToggle
    \/ \E o \in {"refresh_sliders", "sync_all_sliders"} : MockSync(o)

\* Spec: the native component is left open.
Init ==
    /\ CallerInit
    /\ dev = DevIdle

Next ==
    \/ Operations(FALSE)
    \/ \E func \in CallbackFuncs :
         \E data \in CallbackData(func), text \in CallbackTexts(func) :
            ExternalCallback(func, data, text)

Spec == Init /\ [][Next]_vars

\* SpecToggle: one AsusController under get_current_mode and
\* toggle_e_reading, with callbacks of any origin arriving at any time.
InitToggle ==
    /\ CallerInit
    /\ ctl = "asus"
    /\ dev = DevIdle

NextToggle ==
    \/ \E o \in {"get_current_mode", "toggle_e_reading"} : AsusQueryMode(FALSE, o)
    \/ AsusDetect(FALSE)
    \/ AsusTarget
    \/ AsusApply(FALSE)
    \/ \E func \in CallbackFuncs :
         \E data \in CallbackData(func), text \in CallbackTexts(func) :
            ExternalCallback(func, data, text)

SpecToggle == InitToggle /\ [][NextToggle]_vars

\* SpecDevice: the native component applies and reports.
InitDevice ==
    /\ CallerInit
    /\ dev \in (IF ctl = "asus" THEN DevStates ELSE {DevIdle})

NextDevice ==
    \/ Operations(TRUE)
    \/ DeliverReport

SpecDevice == InitDevice /\ [][NextDevice]_vars

\* SpecDimming: a caller of set_dimming and set_dimming_percent, with mode
\* reports arriving in between.
MinI32 == -MaxI32 - 1
Levels   == {MinI32, -1, 39, 40, 41, 70, 100, 101, 256 + 70, MaxI32}
Percents == {MinI32, -1, 0, 1, 33, 50, 99, 100, 101, MaxI32}

InitDimming ==
    /\ CallerInit
    /\ mock = MockNew
    /\ dev = DevIdle

NextDimming ==
    \/ \E level \in Levels : AsusSetDimming(FALSE, "set_dimming", level)
    \/ \E percent \in Percents : AsusSetDimming(FALSE, "set_dimming_percent", percent)
    \/ AsusDimmingBody(FALSE)
    \/ \E level \in Levels : MockSetDimming(level)
    \/ \E percent \in Percents : MockSetDimmingPercent(percent)
    \/ \E text \in CallbackTexts(18) : ExternalCallback(18, 1, text)

SpecDimming == InitDimming /\ [][NextDimming]_vars

\* SpecMock: a caller of a MockController made by new().
InitMock == CallerInit /\ ctl = "mock" /\ mock = MockNew /\ dev = DevIdle

NextMock ==
    \/ \E level \in Levels : MockSetDimming(level)
    \/ \E percent \in Percents : MockSetDimmingPercent(percent)
    \/ \E m \in UserModes : MockSetMode(m)
    \/ MockToggle
    \/ MockGetCurrentMode

SpecMock == InitMock /\ [][NextMock]_vars

\* SpecCallback: the native session holds a queue of up to MaxPending
\* callbacks of any code, payload and text, and makes them one by one.
Callbacks ==
    [func : {18}, data : {1, 7, 300},
     text : {NullText,
             Text(<< Field(0) >>),
             Text(<< Field(0), Field(70) >>),
             Text(<< Field(0), Field(150), Field(1) >>),
             Text(<< Field(0), Field(-5), Field(0) >>),
             Text(<< Field(0), BadField, Field(1) >>),
             Text(<< Field(0), Field(70), BadField >>),
             Text(<< BadField, Field(40), Field(2), Field(9) >>)}]
    \cup [func : {20, 21}, data : {0, 75, 255, 256, 300, -1}, text : {NullText}]
    \cup [func : {20, 21}, data : {MaxI32, MinI32}, text : {Text(<< Field(0) >>)}]
    \cup [func : {27},
          data : {MonochromeValue(3, 60), MonochromeValue(0, 0),
                  MonochromeValue(255, 255), MonochromeValue(4, 205),
                  MonochromeValue(3, 206), MonochromeValue(0, 255),
                  MonochromeValue(256, 0), -207,
                  MaxI32 - 206, MaxI32 - 205, MaxI32},
          text : {NullText}]
    \cup [func : {5}, data : {0}, text : {NullText}]

QueuesUpTo(S, n) == UNION {[1..k -> S] : k \in 0..n}

InitCallback ==
    /\ GuardInit
    /\ ctl = "asus"
    /\ StaticsInit
    /\ mock = MockNew
    /\ op = "none" /\ pc = "idle"
    /\ current = NoMode /\ target = NoMode /\ ret = NoRet /\ arg = 0
    /\ conv = << >>
    /\ FineInit
    /\ mock0 = MockNew
    /\ dev = DevIdle /\ lastCall = NoCall /\ status = 0
    /\ pending \in QueuesUpTo(Callbacks, MaxPending)
    /\ lastWrites = 0
    /\ pair = PairNone
    /\ calls = 0

NextCallback == DeliverReport

SpecCallback == InitCallback /\ [][NextCallback]_vars

\* SpecTorn: one code-18 report arrives while another thread takes one
\* snapshot; the statics hold what earlier reports left.
TornModes   == {1, 2}
TornDimming == {-1, 70}
TornReports ==
    [data : {1, 2, 7},
     text : {NullText,
             Text(<< Field(0), Field(70) >>),
             Text(<< Field(0), Field(85), Field(1) >>),
             Text(<< Field(0), Field(85), Field(0) >>),
             Text(<< Field(0), BadField, Field(1) >>)}]

InitTorn ==
    /\ GuardInit
    /\ ctl = "asus"
    /\ CURRENT_MODE \in TornModes
    /\ IS_MONOCHROME \in BOOLEAN
    /\ CURRENT_DIMMING \in TornDimming
    /\ LAST_NON_EREADING_MODE = 1
    /\ MANUAL_SLIDER = 50
    /\ EYECARE_SLIDER = 2
    /\ EREADING_GRAYSCALE = 3
    /\ EREADING_TEMP = 562
    /\ mock = MockNew
    /\ op = "none" /\ pc = "idle"
    /\ current = NoMode /\ target = NoMode /\ ret = NoRet /\ arg = 0
    /\ conv = << >>
    /\ FineInit
    /\ mock0 = MockNew
    /\ dev = DevIdle
    /\ pending = << >> /\ lastCall = NoCall /\ status = 0
    /\ lastWrites = 0
    /\ pair = PairNone
    /\ calls = 0

NextTorn ==
    \/ \E r \in TornReports : CallbackEnter(r.data, r.text)
    \/ CallbackStore
    \/ CallbackReturn
    \/ SnapshotLoad

SpecTorn == InitTorn /\ [][NextTorn]_vars

\* SpecMockRace: every thread toggles once one MockController that was made
\* with_state.
InitMockRace == CallerBase /\ ctl = "mock" /\ mock0 = mock /\ dev = DevIdle

NextMockRace == \E t \in Threads : TogGetState(t) \/ TogSetMode(t)

SpecMockRace == InitMockRace /\ [][NextMockRace]_vars

\* SpecModes: a caller builds modes with the constructors, from any u8
\* arguments, and hands the ones it got to set_mode.
U8Args   == {0, 1, 3, 4, 5, 6, 50, 100, 101, 206, 255}
TempArgs == {0, 50, 206, 255}
NewArgs ==
    [kind : {"Normal", "Vivid"}, a : {0}, b : {0}]
    \cup [kind : {"Manual", "EyeCare"}, a : U8Args, b : {0}]
    \cup [kind : {"EReading"}, a : U8Args, b : TempArgs]

\* A constructor call: target holds the arguments, ret the result.
ModeNew(k, a, b) ==
    /\ pc = "idle"
    /\ op' = "new"
    /\ target' = [kind |-> k, a |-> a, b |-> b]
    /\ ret' = mode_new(k, a, b)
    /\ UNCHANGED <<ctl, pc, current, arg, conv, cb, fineVars, staticVars, nativeVars, mock, guardVars,
                   histVars>>

\* The caller holds a mode that a constructor returned.
Built == op = "new" /\ ret.tag = "Ok"

InitModes == CallerInit /\ dev = DevIdle

NextModes ==
    \/ \E n \in NewArgs : ModeNew(n.kind, n.a, n.b)
    \/ Built /\ AsusSetMode(FALSE, ret.mode)
    \/ AsusApply(FALSE)
    \/ Built /\ MockSetMode(ret.mode)

SpecModes == InitModes /\ [][NextModes]_vars

\* SpecGuard: threads creating and dropping controllers.
InitGuard ==
    /\ GuardInit
    /\ ctl = "asus"
    /\ StaticsInit
    /\ mock = MockNew
    /\ op = "none" /\ pc = "idle"
    /\ current = NoMode /\ target = NoMode /\ ret = NoRet /\ arg = 0
    /\ conv = << >>
    /\ FineInit
    /\ mock0 = MockNew
    /\ dev = DevIdle /\ pending = << >> /\ lastCall = NoCall /\ status = 0
    /\ lastWrites = 0
    /\ pair = PairNone
    /\ calls = 0

NextGuard ==
    \E t \in Threads :
       \/ NewSwap(t)
       \/ InitStepOk(t)
       \/ InitStepFail(t)
       \/ NewRelease(t)
       \/ \E resolved \in BOOLEAN : DropTeardown(t, resolved)
       \/ DropRelease(t)

SpecGuard == InitGuard /\ [][NextGuard]_vars

\* SpecConvert: up to MaxConv calls of the conversions; the first two may
\* take any percentage in 0..100 or any dimming value, every call may take
\* the result of the call before it.
PercentArgs == 0..100
DimmingArgs == (39..101) \cup {MinI32, -1, 0, 256, MaxI32}

NextConvert ==
    \/ \E percent \in PercentArgs : Len(conv) <= 1 /\ CallPercentToDimming(percent)
    \/ \E value \in DimmingArgs : Len(conv) <= 1 /\ CallDimmingToPercent(value)
    \/ conv # << >> /\ CallPercentToDimming(Last(conv).y)
    \/ conv # << >> /\ CallDimmingToPercent(Last(conv).y)

SpecConvert == InitGuard /\ [][NextConvert]_vars

(***************************************************************************)
(* Properties of the instance guard (SpecGuard).                           *)
(***************************************************************************)
\* Thread t took a step of new() or drop().
Stepped(t) == tpc'[t] # tpc[t] \/ tres'[t] # tres[t] \/ tstep'[t] # tstep[t]

\* C1: at most one thread holds a controller that is live or still being
\* initialised, and the guard is held whenever one does; a new() made by a
\* thread while the guard is held does not get a controller: the only result
\* it can return is AlreadyInitialized, and it leaves the guard held and its
\* owner in place.
C1_SingleInstance ==
    /\ [](Cardinality(Owners) <= 1 /\ (Owners # {} => INSTANCE_EXISTS))
    /\ [][\A t \in Threads :
            (tpc[t] = "idle" /\ INSTANCE_EXISTS) =>
               /\ tpc'[t] = "idle"
               /\ tres'[t] # tres[t] =>
                     /\ tres'[t] = "AlreadyInitialized"
                     /\ INSTANCE_EXISTS'
                     /\ Owners' = Owners]_vars

\* A controller is live and another thread's new() was refused.
C1_Witness ==
    \E t, u \in Threads :
       /\ t # u
       /\ tpc[t] = "live"
       /\ tpc[u] = "idle" /\ tres[u] = "AlreadyInitialized"

\* C2: the step that ends drop leaves the guard free, whether the teardown
\* entry point was resolved or not; and with the guard free a new() is not
\* refused: it takes the guard and starts initialising, and when its last
\* initialisation step succeeds it returns a live controller.
C2_DropFreesGuard ==
    [][\A t \in Threads :
         /\ (tpc[t] = "drop_release" /\ tpc'[t] = "idle") => ~INSTANCE_EXISTS'
         /\ (tpc[t] = "idle" /\ ~INSTANCE_EXISTS /\ Stepped(t)) =>
               (tpc'[t] = "init" /\ INSTANCE_EXISTS' /\ tres'[t] = "none")
         /\ (tpc[t] = "init" /\ tstep[t] = Len(InitSteps) /\ tpc'[t] = "live") =>
               tres'[t] = "Ok"
         /\ (tpc[t] = "init" /\ tpc'[t] \notin {"init", "init_failed"}) =>
               (tpc'[t] = "live" /\ tstep[t] = Len(InitSteps))]_vars

\* A controller was dropped without its teardown entry point being resolved,
\* and a controller made after that is live.
C2_Witness ==
    \E t, u \in Threads :
       /\ t # u
       /\ tpc[t] = "idle" /\ teardown[t] = "unresolved"
       /\ tpc[u] = "live" /\ tres[u] = "Ok"

\* C3: the guard is never held without a thread that owns it, so a failed
\* new() has left it free; and the step by which a failed new() returns
\* releases the guard and returns the error of the step that failed.
C3_NoGuardLeak ==
    /\ [](INSTANCE_EXISTS => Owners # {})
    /\ [][\A t \in Threads :
            (tpc[t] = "init_failed" /\ tpc'[t] # "init_failed") =>
               /\ tpc'[t] = "idle"
               /\ ~INSTANCE_EXISTS'
               /\ tres'[t] = InitSteps[tstep[t]].err]_vars

\* A new() failed at native initialisation, and a later new() went through.
C3_Witness ==
    \E t, u \in Threads :
       /\ t # u
       /\ tpc[t] = "idle" /\ tres[t] = "RpcInitFailed"
       /\ tpc[u] = "live" /\ teardown[u] = "none" /\ teardown[t] = "none"


(***************************************************************************)
(* Properties of mode resolution and of toggle_e_reading.                  *)
(***************************************************************************)
\* The mode, or the error, that belongs to a state by its (mode id, overlay).
C4_Expected(state) ==
    IF state.is_monochrome
       THEN Ok([kind |-> "EReading", a |-> state.ereading_grayscale,
                b |-> state.ereading_temp])
       ELSE CASE state.mode_id = 1 -> Ok([kind |-> "Normal", a |-> 0, b |-> 0])
              [] state.mode_id = 2 -> Ok([kind |-> "Vivid", a |-> 0, b |-> 0])
              [] state.mode_id = 6 ->
                   Ok([kind |-> "Manual", a |-> state.manual_slider, b |-> 0])
              [] state.mode_id = 7 ->
                   Ok([kind |-> "EyeCare", a |-> state.eyecare_level, b |-> 0])
              [] OTHER -> Err("ModeNotDetected")

\* C4: the mode get_current_mode returns, and the mode toggle_e_reading takes
\* as current, is the one the pair (mode id, overlay) of the state read
\* selects: (1,false) Normal, (2,false) Vivid, (6,false) Manual with the
\* state's manual slider, (7,false) EyeCare with the state's level, (any,true)
\* EReading with the state's grayscale and temperature, and ModeNotDetected
\* for every other pair; on MockController and on AsusController.
C4_ModeResolution ==
    /\ []((ctl = "mock" /\ op = "get_current_mode") => ret = C4_Expected(mock))
    /\ [][(ctl = "asus" /\ pc = "settle" /\ pc' # "settle") =>
            CASE op = "get_current_mode" ->
                   pc' = "idle" /\ ret' = C4_Expected(snapshot)
              [] op = "toggle_e_reading" ->
                   IF C4_Expected(snapshot).tag = "Ok"
                      THEN pc' = "state2" /\ current' = C4_Expected(snapshot).mode
                      ELSE pc' = "idle" /\ ret' = C4_Expected(snapshot)
              [] OTHER -> TRUE]_vars

\* get_current_mode of AsusController has failed with ModeNotDetected on the
\* initial mode id, before any mode report.
C4_Witness ==
    /\ ctl = "asus" /\ op = "get_current_mode" /\ pc = "idle"
    /\ CURRENT_MODE = -1 /\ ~IS_MONOCHROME
    /\ ret = Err("ModeNotDetected")

\* C5: a toggle_e_reading made in a state with the overlay off and a mode id
\* m of 1, 2, 6 or 7 returns an e-reading mode, and the toggle_e_reading that
\* follows it returns a mode that is not e-reading and whose id is m.
C5_TogglePair ==
    /\ pair.phase # "failed"
    /\ (pair.phase = "entered" /\ pc = "idle") =>
          (ret.tag = "Ok" /\ is_ereading(ret.mode))
    /\ pair.phase = "done" =>
          (ret.tag = "Ok" /\ ~is_ereading(ret.mode) /\ mode_id(ret.mode) = pair.m)

\* C6: when a toggle_e_reading that entered e-reading from mode id 7 (6) is
\* followed by a toggle_e_reading, that one returns EyeCare (Manual) carrying
\* the level (slider value) the state had when the first toggle began.
C6_PairKeepsSlider ==
    pair.phase = "done" =>
       /\ pair.m = 7 => ret = Ok(EyeCareMode(pair.val))
       /\ pair.m = 6 => ret = Ok(ManualMode(pair.val))
       /\ pair.m \in {1, 2, 6, 7} /\ ret.tag = "Ok" /\ mode_id(ret.mode) = pair.m

\* AsusController has entered e-reading from EyeCare at level 3 and the next
\* toggle has returned.
C6_Witness ==
    /\ ctl = "asus" /\ op = "toggle_e_reading" /\ pc = "idle"
    /\ pair = [phase |-> "done", m |-> 7, val |-> 3]

\* C7: when toggle_e_reading of AsusController is about to apply the EReading
\* mode it has built from a current mode that is not e-reading,
\* last_non_ereading_mode already holds the id of that current mode.
C7_CapturedBeforeApply ==
    (ctl = "asus" /\ op = "toggle_e_reading" /\ pc = "apply" /\ is_ereading(target)
       /\ ~is_ereading(current))
    => LAST_NON_EREADING_MODE = mode_id(current)

\* C8: while the overlay flag stays as it is, AsusController stores to
\* last_non_ereading_mode at most once.
C8_WrittenOncePerOverlay ==
    ctl = "asus" => lastWrites <= 1

\* C9: on AsusController, whenever the overlay flag of the snapshot turns on
\* while a known mode id is current, last_non_ereading_mode holds that id as
\* soon as the flag is on.
C9_CapturedWhenOverlayShows ==
    [][(ctl = "asus" /\ CURRENT_MODE \in {1, 2, 6, 7}
          /\ ~IS_MONOCHROME /\ IS_MONOCHROME')
       => LAST_NON_EREADING_MODE' = CURRENT_MODE]_vars

\* The mode that belongs to a saved mode id.
C10_Expected(state) ==
    CASE state.last_non_ereading_mode = 2 -> [kind |-> "Vivid", a |-> 0, b |-> 0]
      [] state.last_non_ereading_mode = 6 ->
           [kind |-> "Manual", a |-> state.manual_slider, b |-> 0]
      [] state.last_non_ereading_mode = 7 ->
           [kind |-> "EyeCare", a |-> state.eyecare_level, b |-> 0]
      [] OTHER -> [kind |-> "Normal", a |-> 0, b |-> 0]

\* C10: when toggle_e_reading leaves e-reading, its target is the mode the
\* saved id of the state selects (2 Vivid, 6 Manual with the state's slider,
\* 7 EyeCare with the state's level, anything else Normal); when the toggle
\* then returns Ok, it returns that target and the native call it made is the
\* one that applies it; on MockController the mode returned is that mode and
\* the state afterwards has its id and the overlay off.
C10_RestoreOnLeave ==
    [][/\ (ctl = "asus" /\ op = "toggle_e_reading" /\ pc = "state2"
             /\ is_ereading(current) /\ pc' # "state2")
          => (pc' = "apply" /\ target' = C10_Expected(snapshot))
       /\ (ctl = "asus" /\ op = "toggle_e_reading" /\ pc = "apply"
             /\ is_ereading(current) /\ pc' # "apply" /\ ret'.tag = "Ok")
          => (ret' = Ok(target) /\ lastCall' = apply(target))
       /\ (ctl = "mock" /\ mock.is_monochrome /\ op' = "toggle_e_reading"
             /\ mock' # mock)
          => /\ ret' = Ok(C10_Expected(mock))
             /\ mock'.mode_id = mode_id(C10_Expected(mock))
             /\ ~mock'.is_monochrome]_vars

\* AsusController has left e-reading for EyeCare at level 3 and applied it.
C10_Witness ==
    /\ ctl = "asus" /\ op = "toggle_e_reading" /\ pc = "idle"
    /\ ret = Ok(EyeCareMode(3))
    /\ lastCall = [sym |-> SetEyecare, value |-> 3]


(***************************************************************************)
(* Properties of set_dimming and set_dimming_percent (SpecDimming).        *)
(***************************************************************************)
\* C11: whatever level or percentage the caller gave, the value a native
\* set-dimming call received is within 40..100.
C11_NativeDimmingInRange ==
    lastCall.sym = SetDimming => (lastCall.value >= 40 /\ lastCall.value <= 100)

\* set_dimming(i32::MAX) has made its native call.
C11_Witness ==
    /\ ctl = "asus" /\ op = "set_dimming" /\ arg = MaxI32
    /\ lastCall = [sym |-> SetDimming, value |-> 100]

\* The step in which AsusController's operation o runs the body of set_dimming.
DimmingStep(o) == ctl = "asus" /\ op = o /\ pc = "dimming" /\ pc' = "idle"

\* C12: set_dimming(level) returns Ok exactly when its native call returned 0,
\* and then the snapshot's dimming is clamp(level, 40, 100) in the state the
\* call returns in; when the native call returned a nonzero code the result is
\* DimmingFailed with that code and the snapshot's dimming is as it was; when
\* the entry point is not found no call is made and the dimming is as it was.
C12_SetDimmingResult ==
    [][DimmingStep("set_dimming") =>
         CASE ret'.tag = "Ok" ->
                /\ status' = 0
                /\ lastCall' = [sym |-> SetDimming, value |-> clamp(arg, 40, 100)]
                /\ CURRENT_DIMMING' = clamp(arg, 40, 100)
           [] ret'.tag = "Err" /\ ret'.err = "DimmingFailed" ->
                /\ status' # 0
                /\ ret'.code = status'
                /\ lastCall' = [sym |-> SetDimming, value |-> clamp(arg, 40, 100)]
                /\ CURRENT_DIMMING' = CURRENT_DIMMING
           [] OTHER ->
                /\ ret' = Err("DllLoad")
                /\ UNCHANGED <<lastCall, status, CURRENT_DIMMING>>]_vars

\* A mode report gave dimming 70; set_dimming(100) then failed with code 5.
C12_Witness ==
    /\ ctl = "asus" /\ op = "set_dimming" /\ arg = 100
    /\ ret = DimmingFailed(5) /\ status = 5
    /\ CURRENT_DIMMING = 70

\* C13: a step of set_dimming_percent(p) is a step set_dimming could take
\* with level percent_to_dimming(clamp(p, 0, 100)): same native call, same
\* snapshot, same result.  On MockController the state's dimming after
\* set_dimming_percent(p) is percent_to_dimming(clamp(p, 0, 100)) and after
\* set_dimming(l) it is clamp(l, 40, 100).
C13_PercentDelegates ==
    /\ []((ctl = "mock" /\ op = "set_dimming_percent") =>
             (mock.dimming = percent_to_dimming(clamp(arg, 0, 100)) /\ ret = OkUnit))
    /\ []((ctl = "mock" /\ op = "set_dimming") =>
             (mock.dimming = clamp(arg, 40, 100) /\ ret = OkUnit))
    /\ [][DimmingStep("set_dimming_percent") =>
            \E found \in BOOLEAN, st \in {0, status'} :
               set_dimming(FALSE, percent_to_dimming(clamp(arg, 0, 100)), found, st)]_vars

\* set_dimming_percent(50) has set the dimming to 70.
C13_Witness ==
    /\ ctl = "asus" /\ op = "set_dimming_percent" /\ arg = 50
    /\ ret = OkUnit /\ CURRENT_DIMMING = 70
    /\ lastCall = [sym |-> SetDimming, value |-> 70]


(***************************************************************************)
(* Properties of the timing of get_current_mode and sync_all_sliders.      *)
(***************************************************************************)
\* C14: while get_current_mode waits, its native mode query has already been
\* made; the wait ends whether or not a report has arrived; the result is
\* resolved from the snapshot as it is when the wait ends, so it reflects
\* every callback delivered until then and is an error only if that snapshot
\* resolves to one; a callback delivered after the call returned leaves the
\* returned result as it is.
C14_QueryWaitRead ==
    /\ []((ctl = "asus" /\ op = "get_current_mode" /\ pc = "settle") =>
             /\ lastCall = [sym |-> GetColorMode, value |-> 0]
             /\ ENABLED AsusDetect(FALSE))
    /\ [][(ctl = "asus" /\ op = "get_current_mode" /\ pc = "settle" /\ pc' # "settle")
            => (pc' = "idle" /\ ret' = mode_from_state(snapshot))]_vars
    /\ [][(ctl = "asus" /\ op = "get_current_mode" /\ pc = "idle"
             /\ <<CURRENT_MODE, IS_MONOCHROME, MANUAL_SLIDER, EYECARE_SLIDER,
                   EREADING_GRAYSCALE, EREADING_TEMP, CURRENT_DIMMING>>' #
                <<CURRENT_MODE, IS_MONOCHROME, MANUAL_SLIDER, EYECARE_SLIDER,
                  EREADING_GRAYSCALE, EREADING_TEMP, CURRENT_DIMMING>>)
            => (ret' = ret /\ pc' = "idle" /\ op' = op)]_vars

\* get_current_mode returned Normal, and a report that came after it returned
\* has made Vivid the current mode.
C14_Witness ==
    /\ ctl = "asus" /\ op = "get_current_mode" /\ pc = "idle"
    /\ ret = Ok(NormalMode)
    /\ CURRENT_MODE = 2 /\ ~IS_MONOCHROME


\* A step of sync_all_sliders that leaves position p.
SyncLeaves(p) == ctl = "asus" /\ op = "sync_all_sliders" /\ pc = p /\ pc' # p

\* C15: with every entry point found, sync_all_sliders makes the mode query,
\* waits, then makes the manual, eye-care and monochrome queries in that
\* order, waits again and returns Ok only after that second wait, making no
\* other native call; and when it has returned, the snapshot holds what the
\* reports delivered before the end of the second wait carried: mode id,
\* overlay, dimming, manual slider, eye-care level, grayscale and temperature.
C15_SyncOrder ==
    /\ [][/\ (ctl = "asus" /\ pc = "idle" /\ op' = "sync_all_sliders" /\ pc' # "idle")
             => (pc' = "settle" /\ lastCall' = [sym |-> GetColorMode, value |-> 0])
          /\ SyncLeaves("settle")
             => (pc' = "refresh1" /\ lastCall' = lastCall)
          /\ SyncLeaves("refresh1")
             => (pc' = "refresh2" /\ lastCall' = [sym |-> GetManual, value |-> 0])
          /\ SyncLeaves("refresh2")
             => (pc' = "refresh3" /\ lastCall' = [sym |-> GetEyecare, value |-> 0])
          /\ SyncLeaves("refresh3")
             => (pc' = "settle2" /\ lastCall' = [sym |-> GetMonochrome, value |-> 0])
          /\ SyncLeaves("settle2")
             => (pc' = "idle" /\ ret' = OkUnit /\ lastCall' = lastCall
                   /\ UNCHANGED staticVars)
          /\ (ctl = "asus" /\ op = "sync_all_sliders" /\ pc # "idle" /\ pc' = "idle")
             => pc = "settle2"]_vars
    /\ []((ctl = "asus" /\ op = "sync_all_sliders" /\ pc = "idle") =>
             /\ ret = OkUnit
             /\ snapshot.mode_id = dev.mode
             /\ snapshot.is_monochrome = dev.mono
             /\ snapshot.dimming = dev.dimming
             /\ snapshot.manual_slider = dev.manual
             /\ snapshot.eyecare_level = dev.eyecare
             /\ MonochromeValue(snapshot.ereading_grayscale, snapshot.ereading_temp)
                   = dev.packed)

\* sync_all_sliders has returned with the slider 75 and the level 3 that the
\* native component reported.
C15_Witness ==
    /\ ctl = "asus" /\ op = "sync_all_sliders" /\ pc = "idle" /\ ret = OkUnit
    /\ lastCall = [sym |-> GetMonochrome, value |-> 0]
    /\ snapshot.manual_slider = 75 /\ snapshot.eyecare_level = 3
    /\ snapshot.mode_id = 7


\* C16: no failure of a native call is swallowed: a sync_all_sliders whose
\* mode query fails returns an error at that point and does not go on, and a
\* set_mode that has returned Ok made a native call that reported status 0.
C16_FailuresReturned ==
    /\ [][(ctl = "asus" /\ pc = "idle" /\ op' = "sync_all_sliders" /\ pc' # "settle"
             /\ <<op, pc, ret>>' # <<op, pc, ret>>)
            => (pc' = "idle" /\ ret'.tag = "Err")]_vars
    /\ [][(ctl = "asus" /\ op = "set_mode" /\ pc = "apply" /\ ret'.tag = "Ok")
            => status' = 0]_vars


\* C17: only the callback receiver writes the shared snapshot: a step of an
\* AsusController operation (one that moves the operation, or returns) leaves
\* every field that get_state reads as it was.
C17_OnlyCallbackWrites ==
    [][(ctl = "asus" /\ <<op, pc, ret>>' # <<op, pc, ret>>)
         => UNCHANGED <<CURRENT_MODE, IS_MONOCHROME, CURRENT_DIMMING, MANUAL_SLIDER,
                        EYECARE_SLIDER, EREADING_GRAYSCALE, EREADING_TEMP,
                        LAST_NON_EREADING_MODE>>]_vars


\* The callback the step delivers, and that the step delivers it.
Delivered == Head(pending)
Delivers(f) == pending # << >> /\ Delivered.func = f /\ pending' = Tail(pending)

\* C18: a code-18 callback whose text has at least three fields, with
\* fields 1 and 2 integers, sets the snapshot's dimming to field 1 as it is,
\* the overlay flag to (field 2 # 0) and the mode id to the payload, and
\* leaves the manual slider, eye-care level, e-reading grayscale and
\* temperature and the last non-e-reading mode unchanged.  (Field i of the
\* text is element i + 1 of the sequence.)
C18_ModeReport ==
    [][(/\ Delivers(18)
        /\ ~Delivered.text.null
        /\ Len(Delivered.text.parts) >= 3
        /\ Delivered.text.parts[2].ok
        /\ Delivered.text.parts[3].ok)
        => /\ snapshot'.dimming = Delivered.text.parts[2].val
           /\ snapshot'.is_monochrome = (Delivered.text.parts[3].val # 0)
           /\ snapshot'.mode_id = Delivered.data
           /\ snapshot'.manual_slider = snapshot.manual_slider
           /\ snapshot'.eyecare_level = snapshot.eyecare_level
           /\ snapshot'.ereading_grayscale = snapshot.ereading_grayscale
           /\ snapshot'.ereading_temp = snapshot.ereading_temp
           /\ snapshot'.last_non_ereading_mode = snapshot.last_non_ereading_mode]_vars

\* A report "0,150,1" with payload 7 has been received.
C18_Witness ==
    /\ snapshot.dimming = 150 /\ snapshot.is_monochrome /\ snapshot.mode_id = 7
    /\ Len(pending) < MaxPending

\* C19: a code-27 callback with payload g*256 + t - 206, 0 <= g, t <= 255,
\* makes the snapshot report grayscale g and temperature t; the payload
\* (3*256 + 60) - 206 gives grayscale 3 and temperature 60.
C19_EReadingReport ==
    [][(Delivers(27) /\ Delivered.data \in (0 - 206)..(65535 - 206))
        => /\ snapshot'.ereading_grayscale = (Delivered.data + 206) \div 256
           /\ snapshot'.ereading_temp = (Delivered.data + 206) % 256
           /\ Delivered.data = (3 * 256 + 60) - 206
                => /\ snapshot'.ereading_grayscale = 3
                   /\ snapshot'.ereading_temp = 60]_vars

\* The report with payload (3*256 + 60) - 206 has been received.
C19_Witness ==
    /\ EREADING_GRAYSCALE = 3 /\ EREADING_TEMP = 60
    /\ snapshot.ereading_grayscale = 3 /\ snapshot.ereading_temp = 60

\* C20: after a code-20 callback with payload v the snapshot's manual_slider
\* is v, and after a code-21 callback its eyecare_level is v, for every
\* 32-bit v.
C20_SlidersAsIs ==
    [][/\ Delivers(20) => snapshot'.manual_slider = Delivered.data
       /\ Delivers(21) => snapshot'.eyecare_level = Delivered.data]_vars


\* C21: a callback with a code other than 18, 20, 21, 27 changes no
\* snapshot field; code 20 changes only the manual slider, code 21 only the
\* eye-care level, code 27 only the e-reading grayscale and temperature; no
\* callback writes last_non_ereading_mode.
C21_CallbackFrame ==
    [][(pending # << >> /\ pending' = Tail(pending)) =>
         /\ Delivered.func \notin {18, 20, 21, 27}
              => (snapshot' = snapshot /\ UNCHANGED staticVars)
         /\ Delivered.func = 20
              => /\ snapshot' = [snapshot EXCEPT !.manual_slider = snapshot'.manual_slider]
                 /\ UNCHANGED <<CURRENT_MODE, IS_MONOCHROME, CURRENT_DIMMING,
                                EYECARE_SLIDER, EREADING_GRAYSCALE, EREADING_TEMP>>
         /\ Delivered.func = 21
              => /\ snapshot' = [snapshot EXCEPT !.eyecare_level = snapshot'.eyecare_level]
                 /\ UNCHANGED <<CURRENT_MODE, IS_MONOCHROME, CURRENT_DIMMING,
                                MANUAL_SLIDER, EREADING_GRAYSCALE, EREADING_TEMP>>
         /\ Delivered.func = 27
              => /\ snapshot' = [snapshot EXCEPT
                                   !.ereading_grayscale = snapshot'.ereading_grayscale,
                                   !.ereading_temp = snapshot'.ereading_temp]
                 /\ UNCHANGED <<CURRENT_MODE, IS_MONOCHROME, CURRENT_DIMMING,
                                MANUAL_SLIDER, EYECARE_SLIDER>>
         /\ UNCHANGED LAST_NON_EREADING_MODE]_vars

\* Callbacks have been received, among them a code-20 report of 75 and a
\* code-27 report, and the other fields are as they were at the start.
C21_Witness ==
    /\ pending = << >>
    /\ MANUAL_SLIDER = 75
    /\ EREADING_GRAYSCALE = 4 /\ EREADING_TEMP = 205
    /\ CURRENT_MODE = -1 /\ ~IS_MONOCHROME /\ CURRENT_DIMMING = -1
    /\ EYECARE_SLIDER = 2 /\ LAST_NON_EREADING_MODE = 1

\* C22: a code-18 callback whose text is null, has fewer than three fields,
\* or whose field 1 or 2 is not an integer, changes no snapshot field.
C22_MalformedDropped ==
    [][(/\ Delivers(18)
        /\ \/ Delivered.text.null
           \/ Len(Delivered.text.parts) < 3
           \/ ~Delivered.text.parts[2].ok
           \/ ~Delivered.text.parts[3].ok)
        => snapshot' = snapshot]_vars


\* The native call the claim names for each mode.
C23_Expected(m) ==
    CASE m.kind = "Normal"   -> [sym |-> "MyOptSetSplendidFunc", value |-> 1]
      [] m.kind = "Vivid"    -> [sym |-> "MyOptSetSplendidFunc", value |-> 2]
      [] m.kind = "Manual"   -> [sym |-> "MyOptSetSplendidManualFunc", value |-> m.a]
      [] m.kind = "EyeCare"  -> [sym |-> "MyOptSetSplendidEyecareFunc", value |-> m.a]
      [] m.kind = "EReading" -> [sym |-> "MyOptSetSplendidMonochromeFunc",
                                 value |-> (m.a - 1) * 256 + m.b - 206]

\* C23: set_mode of a mode built by a constructor makes one native call,
\* the one named by the mode's variant with its value (for EReading(g,t) the
\* monochrome-set operation with (g-1)*256 + t - 206), and returns Ok; when
\* the entry point is not found it makes no call and returns the error.
C23_SetModeDispatch ==
    [][/\ (ctl = "asus" /\ pc = "idle" /\ pc' = "apply") => UNCHANGED nativeVars
       /\ (ctl = "asus" /\ op = "set_mode" /\ pc = "apply" /\ pc' # "apply")
            => /\ pc' = "idle"
               /\ \/ /\ ret' = OkUnit
                     /\ \E st \in Statuses(FALSE) : NativeSet(FALSE, C23_Expected(target), st)
                  \/ /\ ret' = Err("DllLoad")
                     /\ UNCHANGED nativeVars]_vars

\* set_mode(EReadingMode::new(5, 0)) has returned Ok.
C23_Witness ==
    /\ ctl = "asus" /\ op = "set_mode" /\ pc = "idle" /\ ret = OkUnit
    /\ lastCall = [sym |-> SetMonochrome, value |-> 4 * 256 + 0 - 206]

\* C24: ManualMode::new(v) fails exactly when v > 100, EyeCareMode::new(l)
\* exactly when l > 4, EReadingMode::new(g,t) exactly when g < 1 or g > 5;
\* a failure is InvalidSliderValue with the offending value and the bounds
\* (0,100), (0,4), (1,5); a success is the mode holding the given values.
C24_Constructors ==
    [][(op' = "new") =>
         LET k == target'.kind
             a == target'.a
             b == target'.b
             fails == CASE k = "Manual"   -> a > 100
                        [] k = "EyeCare"  -> a > 4
                        [] k = "EReading" -> a < 1 \/ a > 5
                        [] OTHER          -> FALSE
             bounds == CASE k = "Manual"  -> <<0, 100>>
                         [] k = "EyeCare" -> <<0, 4>>
                         [] OTHER         -> <<1, 5>>
         IN /\ ret'.tag \in {"Ok", "Err"}
            /\ (ret'.tag = "Err") <=> fails
            /\ ret'.tag = "Err"
                 => /\ ret'.err = "InvalidSliderValue"
                    /\ ret'.value = a
                    /\ <<ret'.min, ret'.max>> = bounds
            /\ ret'.tag = "Ok"
                 => ret'.mode = [kind |-> k, a |-> a, b |-> b]]_vars

\* EReadingMode::new(0, 50) has failed and EReadingMode::new refused 0.
C24_Witness ==
    /\ op = "new" /\ target = [kind |-> "EReading", a |-> 0, b |-> 50]
    /\ ret.tag = "Err" /\ ret.value = 0 /\ ret.min = 1 /\ ret.max = 5


\* Call i + 1 of the conversions took the result of call i.
Chained(i) == conv[i + 1].x = conv[i].y
P2D == "percent_to_dimming"
D2P == "dimming_to_percent"

\* C25: for every percentage p in 0..100,
\* percent_to_dimming(dimming_to_percent(percent_to_dimming(p))) is
\* percent_to_dimming(p).
C25_RoundTripIdempotent ==
    \A i \in 1..(Len(conv) - 2) :
       (/\ conv[i].f = P2D /\ conv[i].x \in 0..100
        /\ conv[i + 1].f = D2P /\ Chained(i)
        /\ conv[i + 2].f = P2D /\ Chained(i + 1))
       => conv[i + 2].y = conv[i].y

\* 33 was converted to 60, back to 33, and to 60 again.
C25_Witness ==
    /\ Len(conv) = 3
    /\ conv[1] = [f |-> P2D, x |-> 33, y |-> 60]
    /\ conv[2] = [f |-> D2P, x |-> 60, y |-> 33]
    /\ conv[3] = [f |-> P2D, x |-> 33, y |-> 60]

\* C26: percent_to_dimming(p) is 40 plus the integer nearest to 60*p/100 for
\* p in 0..100, and within 40..100; dimming_to_percent(d) is the integer
\* nearest to 100*(clamp(d,40,100) - 40)/60 for every d; 0, 50, 100 map to
\* 40, 70, 100 and 40, 70, 100 map to 0, 50, 100.
C26_AffineReference ==
    \A i \in 1..Len(conv) :
       LET x == conv[i].x
           y == conv[i].y
           c == IF x < 40 THEN 40 ELSE IF x > 100 THEN 100 ELSE x
       IN /\ (conv[i].f = P2D /\ x \in 0..100)
               => /\ y \in 40..100
                  /\ 200 * (y - 40) - 120 * x \in (-99)..100
                  /\ (x = 0 => y = 40) /\ (x = 50 => y = 70) /\ (x = 100 => y = 100)
          /\ conv[i].f = D2P
               => /\ 120 * y - 200 * (c - 40) \in (-59)..60
                  /\ (x = 40 => y = 0) /\ (x = 70 => y = 50) /\ (x = 100 => y = 100)

\* percent_to_dimming(50) = 70 and dimming_to_percent(70) = 50 were computed,
\* and then dimming_to_percent of a value above the range.
C26_Witness ==
    /\ Len(conv) = 3
    /\ conv[1] = [f |-> D2P, x |-> MaxI32, y |-> 100]
    /\ conv[2] = [f |-> P2D, x |-> 50, y |-> 70]
    /\ conv[3] = [f |-> D2P, x |-> 70, y |-> 50]

\* C27: both conversions are monotonic non-decreasing: percent_to_dimming
\* on 0..100 and dimming_to_percent on all integers.
C27_Monotonic ==
    \A i, j \in 1..Len(conv) :
       (/\ conv[i].f = conv[j].f
        /\ conv[i].x <= conv[j].x
        /\ conv[i].f = P2D => (conv[i].x \in 0..100 /\ conv[j].x \in 0..100))
       => conv[i].y <= conv[j].y

\* dimming_to_percent was called with i32::MIN and then with 41.
C27_Witness ==
    /\ Len(conv) >= 2
    /\ conv[1] = [f |-> D2P, x |-> MinI32, y |-> 0]
    /\ conv[2] = [f |-> D2P, x |-> 41, y |-> 2]

\* C28: for d in 40..100, percent_to_dimming(dimming_to_percent(d)) = d; for
\* p in 0..100, dimming_to_percent(percent_to_dimming(p)) differs from p by
\* at most 1.
C28_RoundTripWithinOne ==
    \A i \in 1..(Len(conv) - 1) :
       /\ (conv[i].f = D2P /\ conv[i].x \in 40..100 /\ conv[i + 1].f = P2D /\ Chained(i))
            => conv[i + 1].y = conv[i].x
       /\ (conv[i].f = P2D /\ conv[i].x \in 0..100 /\ conv[i + 1].f = D2P /\ Chained(i))
            => conv[i + 1].y - conv[i].x \in (-1)..1

\* 1 percent was converted to 41, 41 back to 2 percent, and 2 percent to 41.
C28_Witness ==
    /\ Len(conv) = 3
    /\ conv[1] = [f |-> P2D, x |-> 1, y |-> 41]
    /\ conv[2] = [f |-> D2P, x |-> 41, y |-> 2]
    /\ conv[3] = [f |-> P2D, x |-> 2, y |-> 41]

\* C29: on MockController, set_mode(m) with a non-e-reading m leaves
\* mode_id = m.mode_id() (1, 2, 6, 7 for Normal, Vivid, Manual, EyeCare) and
\* the overlay off; with an e-reading m it leaves the overlay on, mode_id as
\* it was and last_non_ereading_mode equal to it; dimming and the four
\* slider fields stay as they were in both cases.
C29_MockSetMode ==
    [][(ctl = "mock" /\ Built /\ op' = "set_mode") =>
         LET m == ret.mode IN
         /\ ret' = OkUnit
         /\ m.kind = "EReading"
              => /\ mock'.is_monochrome
                 /\ mock'.mode_id = mock.mode_id
                 /\ mock'.last_non_ereading_mode = mock.mode_id
         /\ m.kind # "EReading"
              => /\ ~mock'.is_monochrome
                 /\ mock'.mode_id = CASE m.kind = "Normal"  -> 1
                                      [] m.kind = "Vivid"   -> 2
                                      [] m.kind = "Manual"  -> 6
                                      [] m.kind = "EyeCare" -> 7
         /\ mock'.dimming = mock.dimming
         /\ mock'.manual_slider = mock.manual_slider
         /\ mock'.eyecare_level = mock.eyecare_level
         /\ mock'.ereading_grayscale = mock.ereading_grayscale
         /\ mock'.ereading_temp = mock.ereading_temp]_vars

\* The mock was given ManualMode::new(100) and its slider is not 100.
C29_Witness ==
    /\ ctl = "mock" /\ op = "set_mode" /\ ret = OkUnit
    /\ target = [kind |-> "Manual", a |-> 100, b |-> 0]
    /\ mock.mode_id = 6 /\ ~mock.is_monochrome /\ mock.manual_slider = 75

\* C30: every native set-monochrome request carries a hardware grayscale in
\* 0..4 (value h*256 + t - 206 with t in 0..255), and the subtraction in
\* EReadingMode::apply never underflows (no operation panics).
C30_HardwareGrayscaleInRange ==
    /\ pc # "panicked"
    /\ lastCall.sym = SetMonochrome
         => (lastCall.value + 206 >= 0 /\ (lastCall.value + 206) \div 256 \in 0..4)


\* C31: when the native component reports, by a code-27 callback, the packed
\* value that applying EReadingMode(g,t) with g in 1..5 sends, the mode
\* derived from the snapshot by from_controller_state is EReadingMode(g,t).
C31_EReadingRoundTrip ==
    [][Delivers(27) =>
         LET raw == Delivered.data + 206
             m   == EReadingMode((raw \div 256) + 1, raw % 256)
         IN (m.a \in 1..5 /\ apply(m).value = Delivered.data)
               => EReadingMode_from_controller_state(snapshot') = m]_vars


\* The step of an AsusController operation that ends the wait of its mode
\* query and resolves the snapshot (get_current_mode, line 374-375).
Resolves == ctl = "asus" /\ pc = "settle" /\ pc' # "settle"

\* C32: mode resolution writes last_non_ereading_mode only when the
\* snapshot's overlay flag is true, and then to that snapshot's mode id;
\* when the flag is false, whether the resolution succeeds or fails with
\* ModeNotDetected, no snapshot field changes; no other field changes ever.
C32_ResolutionWrites ==
    [][Resolves =>
         /\ snapshot.is_monochrome
              => snapshot'.last_non_ereading_mode = snapshot.mode_id
         /\ ~snapshot.is_monochrome => snapshot' = snapshot
         /\ snapshot' = [snapshot EXCEPT !.last_non_ereading_mode =
                                            snapshot'.last_non_ereading_mode]]_vars

\* get_current_mode has resolved a snapshot with the overlay on and mode id
\* 2 and stored 2.
C32_Witness ==
    /\ ctl = "asus" /\ op = "get_current_mode" /\ pc = "idle"
    /\ ret.tag = "Ok" /\ ret.mode.kind = "EReading"
    /\ snapshot.is_monochrome /\ snapshot.mode_id = 2
    /\ snapshot.last_non_ereading_mode = 2


\* C33: a toggle_e_reading whose detection fails (the mode query cannot be
\* made, or the snapshot resolves to no mode) returns the error, makes no
\* native set request and leaves the snapshot as it was; one whose detection
\* succeeded makes one native set request, for its target, and returns that
\* target (or, the entry point of the request missing, returns that error).
C33_ToggleOutcome ==
    [][/\ (ctl = "asus" /\ pc \in {"idle", "settle"} /\ op' = "toggle_e_reading"
             /\ pc' = "idle" /\ <<op, pc, ret>>' # <<op, pc, ret>>)
            => /\ ret'.tag = "Err"
               /\ UNCHANGED nativeVars
               /\ snapshot' = snapshot
       /\ (ctl = "asus" /\ op = "toggle_e_reading" /\ pc = "apply" /\ pc' # "apply")
            => /\ pc' = "idle"
               /\ \/ /\ ret' = Ok(target)
                     /\ \E st \in Statuses(FALSE) : NativeSet(FALSE, apply(target), st)
                  \/ /\ ret' = Err("DllLoad")
                     /\ UNCHANGED nativeVars]_vars


\* C34: toggle_e_reading acts on one view of the state: when it detected
\* e-reading, the snapshot it reads to build the target has the overlay flag
\* on, so that a mode is restored only from such a snapshot.
C34_ConsistentView ==
    [][(ctl = "asus" /\ op = "toggle_e_reading" /\ pc = "state2" /\ pc' = "apply"
          /\ is_ereading(current))
         => snapshot.is_monochrome]_vars


\* What a code-18 report leaves in the three fields it writes, from the
\* fields before it.
Post18(pre, data, text) ==
    LET parts == Parts(text) IN
    [ dimming       |-> IF Len(parts) >= 2 /\ parts[2].ok THEN parts[2].val ELSE pre.dimming,
      is_monochrome |-> IF Len(parts) >= 3 /\ parts[3].ok THEN parts[3].val # 0
                                                          ELSE pre.is_monochrome,
      mode_id       |-> data ]

\* C35: a snapshot taken beside one code-18 callback holds, in each of
\* dimming, monochrome flag and mode identifier, the value from before the
\* callback or the value the callback stores; and a snapshot that holds the
\* callback's (new) mode identifier holds that callback's dimming and
\* monochrome values too.
C35_TornButOrdered ==
    (rd.n = Len(LoadOrder)) =>
        LET pre  == IF cb.step = "none" THEN snapshot ELSE cb.pre
            post == Post18(pre, cb.data, cb.text)
        IN /\ Taken.dimming \in {pre.dimming, post.dimming}
           /\ Taken.is_monochrome \in {pre.is_monochrome, post.is_monochrome}
           /\ Taken.mode_id \in {pre.mode_id, post.mode_id}
           /\ (cb.step # "none" /\ Taken.mode_id = post.mode_id
                  /\ post.mode_id # pre.mode_id)
                 => /\ Taken.dimming = post.dimming
                    /\ Taken.is_monochrome = post.is_monochrome

\* A torn snapshot: the old mode identifier with the new dimming and flag.
C35_Witness ==
    /\ rd.n = Len(LoadOrder)
    /\ cb.step = "done"
    /\ Taken.mode_id = cb.pre.mode_id /\ cb.data # cb.pre.mode_id
    /\ Taken.dimming = 85 /\ cb.pre.dimming # 85
    /\ Taken.is_monochrome /\ ~cb.pre.is_monochrome

\* C36: on the snapshot that AsusController resolves, MockController gives
\* the same outcome: get_current_mode the same mode or error, and
\* toggle_e_reading the same target or error as the Asus toggle that no
\* callback interrupts after its detection.
C36_MockAgrees ==
    [][Resolves =>
         LET state == snapshot IN
         /\ op = "get_current_mode" => ret' = mode_from_state(state)
         /\ op = "toggle_e_reading" =>
               (IF pc' = "idle" THEN ret' ELSE Ok(ToggleTarget(current', snapshot')))
                  = Ok(mock_toggle_target(state))]_vars

\* C37: when every thread has finished its toggle_e_reading of the shared
\* mock, the mock's state is the state that the same toggles leave when run
\* one after the other.
C37_TogglesAtomic ==
    (\A t \in Threads : tog[t].pc = "done") => mock = Toggled(mock0, NThreads)

\* C38: a MockController made by new() keeps, under set_dimming,
\* set_dimming_percent, set_mode with any variant and toggle_e_reading, its
\* dimming within 40..100 and its mode_id and last_non_ereading_mode within
\* {1, 2, 6, 7}; get_current_mode resolves a mode and never returns
\* ModeNotDetected.
C38_MockStaysValid ==
    (ctl = "mock") =>
        /\ mock.dimming \in 40..100
        /\ mock.mode_id \in {1, 2, 6, 7}
        /\ mock.last_non_ereading_mode \in {1, 2, 6, 7}
        /\ mode_from_state(mock).tag = "Ok"
        /\ ret # Err("ModeNotDetected")

\* After e-reading was set over EyeCare at full dimming, get_current_mode
\* answers EReading.
C38_Witness ==
    /\ ctl = "mock" /\ op = "get_current_mode"
    /\ ret.tag = "Ok" /\ ret.mode.kind = "EReading"
    /\ mock.dimming = 100 /\ mock.is_monochrome
    /\ mock.mode_id = 7 /\ mock.last_non_ereading_mode = 7

\* C39: the dimming field of every snapshot that AsusController::get_state
\* returns is within the splendid range 40..100.
C39_DimmingInRange == (ctl = "asus") => snapshot.dimming \in 40..100


\* C40: the callback receiver never fails, whatever the operation code and
\* the 32-bit payload.
C40_CallbackNeverFails == cb.step # "panicked"
====
